---------------------------- MODULE Spec2Model ----------------------------
(***************************************************************************)
(* A model of the duration core of time-rs (src/src/duration/mod.rs):      *)
(* the parser (impl FromStr for Duration), the formatter (impl Display for *)
(* Duration) and the helpers they call.                                    *)
(*                                                                         *)
(* Durations are 64-bit.  TLC's integers are 32-bit, so every 64-bit       *)
(* quantity of the program (u64, i64) is held as a natural number written  *)
(* in limbs: a sequence of digits in base Limb, least significant first,   *)
(* without leading zero limbs (the number 0 is the empty sequence).  A     *)
(* signed value is a record [neg, mag].  Strings are sequences of bytes.   *)
(***************************************************************************)
EXTENDS Integers, Sequences, FiniteSets, TLC

(***************************************************************************)
(* Natural numbers of any size: the arithmetic the program does on u64 and *)
(* i64 values, done exactly.  Width is applied where the program's type    *)
(* applies it (see U64Max, TwoTo63).                                       *)
(***************************************************************************)
Limb == 10 * 10 * 10 * 10

\* a without its leading zero limbs.
NatNorm(a) ==
  LET nz == {i \in 1..Len(a) : a[i] # 0}
  IN  IF nz = {} THEN <<>>
      ELSE SubSeq(a, 1, CHOOSE i \in nz : \A j \in nz : j <= i)

\* The limbs of a small number n >= 0 (an integer literal of the source).
RECURSIVE NatOfInt(_)
NatOfInt(n) == IF n = 0 THEN <<>> ELSE <<n % Limb>> \o NatOfInt(n \div Limb)

NatLimb(a, i) == IF i <= Len(a) THEN a[i] ELSE 0

RECURSIVE NatCmpAt(_, _, _)
NatCmpAt(a, b, i) ==
  IF i = 0 THEN 0
  ELSE IF a[i] < b[i] THEN -1
  ELSE IF a[i] > b[i] THEN 1
  ELSE NatCmpAt(a, b, i - 1)

\* -1, 0, 1 as a < b, a = b, a > b.
NatCmp(a, b) ==
  IF Len(a) < Len(b) THEN -1
  ELSE IF Len(a) > Len(b) THEN 1
  ELSE NatCmpAt(a, b, Len(a))

NatLt(a, b) == NatCmp(a, b) < 0
NatLe(a, b) == NatCmp(a, b) <= 0
NatGt(a, b) == NatCmp(a, b) > 0
NatGe(a, b) == NatCmp(a, b) >= 0

RECURSIVE NatAddAt(_, _, _, _)
NatAddAt(a, b, i, c) ==
  IF i > Len(a) /\ i > Len(b) THEN (IF c = 0 THEN <<>> ELSE <<c>>)
  ELSE LET t == NatLimb(a, i) + NatLimb(b, i) + c
       IN  <<t % Limb>> \o NatAddAt(a, b, i + 1, t \div Limb)

NatAdd(a, b) == NatAddAt(a, b, 1, 0)

RECURSIVE NatSubAt(_, _, _, _)
NatSubAt(a, b, i, br) ==
  IF i > Len(a) THEN <<>>
  ELSE LET t == a[i] - NatLimb(b, i) - br
       IN  IF t < 0 THEN <<t + Limb>> \o NatSubAt(a, b, i + 1, 1)
           ELSE <<t>> \o NatSubAt(a, b, i + 1, 0)

\* a - b, for a >= b.
NatSub(a, b) == NatNorm(NatSubAt(a, b, 1, 0))

RECURSIVE NatMulSmallAt(_, _, _, _)
NatMulSmallAt(a, k, i, c) ==
  IF i > Len(a) THEN NatOfInt(c)
  ELSE LET t == a[i] * k + c
       IN  <<t % Limb>> \o NatMulSmallAt(a, k, i + 1, t \div Limb)

\* a * k for a small multiplier 0 <= k <= 200000.
NatMulSmall(a, k) == IF k = 0 THEN <<>> ELSE NatMulSmallAt(a, k, 1, 0)

RECURSIVE NatDivSmallAt(_, _, _, _)
NatDivSmallAt(a, k, i, r) ==
  IF i = 0 THEN [q |-> <<>>, r |-> r]
  ELSE LET t == r * Limb + a[i]
           rest == NatDivSmallAt(a, k, i - 1, t % k)
       IN  [q |-> rest.q \o <<t \div k>>, r |-> rest.r]

\* a / k and a % k for a small divisor 0 < k <= 200000 (the remainder is small).
NatDivSmall(a, k) == NatNorm(NatDivSmallAt(a, k, Len(a), 0).q)
NatModSmall(a, k) == NatDivSmallAt(a, k, Len(a), 0).r

NatShift(a) == IF a = <<>> THEN a ELSE <<0>> \o a

RECURSIVE NatMulAt(_, _, _)
NatMulAt(a, b, i) ==
  IF i > Len(b) THEN <<>>
  ELSE NatAdd(NatMulSmall(a, b[i]), NatShift(NatMulAt(a, b, i + 1)))

NatMul(a, b) == NatMulAt(a, b, 1)

\* The largest q in 0..9 with b * (q * w) <= a.
NatQuotDigit(a, b, w) ==
  Cardinality({q \in 1..9 : NatLe(NatMulSmall(b, q * w), a)})

\* a / b for a < b * Limb, one decimal digit of the limb at a time: w is the
\* weight of the digit sought (1000, 100, 10, 1) and q the digits found.
RECURSIVE NatQuotLimbAt(_, _, _, _)
NatQuotLimbNext(a, b, w, q, dg) ==
  NatQuotLimbAt(NatSub(a, NatMulSmall(b, dg * w)), b, w \div 10, q + dg * w)

NatQuotLimbAt(a, b, w, q) ==
  IF w = 0 THEN q ELSE NatQuotLimbNext(a, b, w, q, NatQuotDigit(a, b, w))

NatQuotLimb(a, b) == NatQuotLimbAt(a, b, 1000, 0)

\* Quotient and remainder of a by b > 0: long division, one limb at a time.
\* h is the division by b * Limb, q0 the next limb of the quotient.
NatDivModLimb(h, b, q0) ==
  [q |-> NatAdd(NatShift(h.q), NatOfInt(q0)),
   r |-> NatSub(h.r, NatMulSmall(b, q0))]

NatDivModStep(h, b) == NatDivModLimb(h, b, NatQuotLimb(h.r, b))

RECURSIVE NatDivMod(_, _)
NatDivMod(a, b) ==
  IF NatLt(a, b) THEN [q |-> <<>>, r |-> a]
  ELSE NatDivModStep(NatDivMod(a, NatShift(b)), b)

NatDiv(a, b) == NatDivMod(a, b).q
NatMod(a, b) == NatDivMod(a, b).r

\* 10^k and 2^k.
RECURSIVE NatPow10(_)
NatPow10(k) ==
  IF k = 0 THEN <<1>>
  ELSE IF k >= 4 THEN NatShift(NatPow10(k - 4))
  ELSE NatMulSmall(NatPow10(k - 1), 10)

RECURSIVE NatPow2Rec(_)
NatPow2Rec(k) ==
  IF k = 0 THEN <<1>>
  ELSE IF k >= 13 THEN NatMulSmall(NatPow2Rec(k - 13), 8192)
  ELSE NatMulSmall(NatPow2Rec(k - 1), 2)

\* <<2^0, ..., 2^255>>: the powers of two the model uses, computed once.
NatPow2Table == SubSeq([k \in 1..256 |-> NatPow2Rec(k - 1)], 1, 256)

NatPow2(k) == NatPow2Table[k + 1]

\* The number written by a sequence of decimal digits, first digit first:
\* a limb is four decimal digits.
NatDigitAt(ds, p) == IF p >= 1 THEN ds[p] ELSE 0

NatOfDigits(ds) ==
  LET n == Len(ds)
  IN  NatNorm([i \in 1..((n + 3) \div 4) |->
                 NatDigitAt(ds, n - 4 * i + 1) * 1000
               + NatDigitAt(ds, n - 4 * i + 2) * 100
               + NatDigitAt(ds, n - 4 * i + 3) * 10
               + NatDigitAt(ds, n - 4 * i + 4)])

\* The decimal digits of a, first digit first (no digit for 0).
NatDigits(a) ==
  LET n == 4 * Len(a)
      all == [p \in 1..n |->
                LET l == a[Len(a) - ((p - 1) \div 4)]
                    k == (p - 1) % 4
                IN  IF k = 0 THEN l \div 1000
                    ELSE IF k = 1 THEN (l \div 100) % 10
                    ELSE IF k = 2 THEN (l \div 10) % 10
                    ELSE l % 10]
      nz == {p \in 1..n : all[p] # 0}
  IN  IF nz = {} THEN <<>>
      ELSE SubSeq(all, CHOOSE p \in nz : \A r \in nz : p <= r, n)

\* a / 2^k.
RECURSIVE NatShr(_, _)
NatShr(a, k) ==
  IF k = 0 \/ a = <<>> THEN a
  ELSE IF k >= 13 THEN NatShr(NatDivSmall(a, 8192), k - 13)
  ELSE NatShr(NatDivSmall(a, 2), k - 1)

\* The number of bits of a: 0 for 0, else the k with 2^(k-1) <= a < 2^k.  A
\* number of n limbs is at least Limb^(n-1) >= 2^(13(n-1)) and below 2^(14n).
NatBitLen(a) ==
  IF a = <<>> THEN 0
  ELSE LET lo == 13 * (Len(a) - 1)
       IN  lo + Cardinality({k \in lo..(14 * Len(a)) : NatGe(a, NatPow2(k))})

(***************************************************************************)
(* The integer types.  A u64 is a natural number below 2^64; an i64 is a   *)
(* record [neg, mag] with mag <= 2^63 - 1, or neg and mag = 2^63 (i64::MIN).*)
(* Zero is [neg |-> FALSE, mag |-> 0].                                     *)
(***************************************************************************)
TwoTo63 == NatPow2(63)
TwoTo64 == NatPow2(64)
I64Max == NatSub(TwoTo63, <<1>>)
U64Max == NatSub(TwoTo64, <<1>>)

I64(neg, mag) == [neg |-> neg /\ mag # <<>>, mag |-> mag]
I64_MIN == I64(TRUE, TwoTo63)
I64_MAX == I64(FALSE, I64Max)

\* An overflowing +, -, * on a primitive integer panics in a build with
\* overflow checks (the debug profile) and wraps in one without (release).
Builds == {"debug", "release"}

(***************************************************************************)
(* f64, for the finite non-negative values the parser computes: the record *)
(* [m, e] stands for m * 2^e, with 2^52 <= m < 2^53, or m = 0 for 0.0.     *)
(* Every operation rounds its exact result to the nearest such value, ties *)
(* to the even m, as IEEE 754 binary64 does.                               *)
(***************************************************************************)
TwoTo52 == NatPow2(52)
TwoTo53 == NatPow2(53)

F64Zero == [m |-> <<>>, e |-> 0]

NatIsOdd(a) == a # <<>> /\ a[1] % 2 = 1

\* floor(n2 / d2) with the remainder and the divisor, given the quotient.
F64QuotRem(q, n2, d2) == [q |-> q, r |-> NatSub(n2, NatMul(q, d2)), d |-> d2]

\* floor(num / (den * 2^e)), the remainder and the divisor used:
\* n2 / d2 with the power of two put on the side that keeps both integers.
F64QuotOf(n2, d2) == F64QuotRem(NatDiv(n2, d2), n2, d2)

F64Quot(num, den, e) ==
  IF den = <<1>> /\ e > 0 THEN F64QuotRem(NatShr(num, e), num, NatPow2(e))
  ELSE IF den = <<1>> THEN F64QuotRem(NatMul(num, NatPow2(-e)), NatMul(num, NatPow2(-e)), den)
  ELSE IF e < 0 THEN F64QuotOf(NatMul(num, NatPow2(-e)), den)
  ELSE F64QuotOf(num, NatMul(den, NatPow2(e)))

\* The f64 with mantissa m (53 bits, or 2^53 after rounding up) and exponent e.
F64Pack(m, e) ==
  IF m = TwoTo53 THEN [m |-> TwoTo52, e |-> e + 1] ELSE [m |-> m, e |-> e]

\* The quotient t rounded to the nearest mantissa, ties to even: c compares
\* twice the remainder with the divisor.
F64RoundQuot(t, c, e) ==
  IF c > 0 \/ (c = 0 /\ NatIsOdd(t.q)) THEN F64Pack(NatAdd(t.q, <<1>>), e)
  ELSE F64Pack(t.q, e)

F64RoundAt(t, e) == F64RoundQuot(t, NatCmp(NatMulSmall(t.r, 2), t.d), e)

\* t0 is the quotient at the exponent e0 guessed from the bit lengths; it
\* has 53 or 54 bits, and with 54 the exponent is one more.
F64RoundFrom(num, den, sh, e0, t0) ==
  IF NatGe(t0.q, TwoTo53) THEN F64RoundAt(F64Quot(num, den, e0 + 1), e0 + 1 + sh)
  ELSE F64RoundAt(t0, e0 + sh)

F64RoundGuess(num, den, sh, e0) ==
  F64RoundFrom(num, den, sh, e0, F64Quot(num, den, e0))

\* The f64 nearest to (num / den) * 2^sh, for den > 0.
F64Round(num, den, sh) ==
  IF num = <<>> THEN F64Zero
  ELSE F64RoundGuess(num, den, sh, NatBitLen(num) - NatBitLen(den) - 53)

\* `n as f64`
F64OfNat(n) == F64Round(n, <<1>>, 0)
\* a * b and a / b (b # 0.0)
F64Mul(a, b) == F64Round(NatMul(a.m, b.m), <<1>>, a.e + b.e)
F64Div(a, b) == F64Round(a.m, b.m, a.e - b.e)

\* `x as u64`: the integer part, saturated at u64::MAX.
F64Saturate(n) == IF NatGt(n, U64Max) THEN U64Max ELSE n

F64ToU64(x) ==
  IF x.m = <<>> THEN <<>>
  ELSE IF x.e >= 12 THEN U64Max
  ELSE IF x.e >= 0 THEN F64Saturate(NatMul(x.m, NatPow2(x.e)))
  ELSE IF x.e < -53 THEN <<>>
  ELSE NatShr(x.m, -x.e)

(***************************************************************************)
(* u64 arithmetic.  `+` and `*` on a u64 whose exact result does not fit   *)
(* panic in a build with overflow checks and wrap modulo 2^64 in one       *)
(* without.  The record is [panic, val].                                   *)
(***************************************************************************)
U64Wrap(n, build) ==
  IF NatLe(n, U64Max) THEN [panic |-> FALSE, val |-> n]
  ELSE IF build = "debug" THEN [panic |-> TRUE, val |-> <<>>]
  ELSE [panic |-> FALSE, val |-> NatMod(n, TwoTo64)]

U64Add(a, b, build) == U64Wrap(NatAdd(a, b), build)
U64Mul(a, b, build) == U64Wrap(NatMul(a, b), build)

(***************************************************************************)
(* Strings are sequences of bytes (the UTF-8 encoding the program works    *)
(* on).  The bytes the program names:                                      *)
(***************************************************************************)
BytePlus == 43
ByteMinus == 45
ByteDot == 46
Byte0 == 48
Byte9 == 57

\* u8::is_ascii_digit
is_ascii_digit(c) == Byte0 <= c /\ c <= Byte9

\* s[from..]
SliceFrom(s, from) == SubSeq(s, from, Len(s))

(***************************************************************************)
(* The duration constants, in nanoseconds.                                 *)
(***************************************************************************)
NANOSECOND == <<1>>
MICROSECOND == NatPow10(3)
MILLISECOND == NatPow10(6)
SECOND == NatPow10(9)
MINUTE == NatMulSmall(SECOND, 60)
HOUR == NatMulSmall(SECOND, 3600)

MAX_DURATION == I64_MAX
MIN_DURATION == I64_MIN

\* The unit table: "ns", "us", "µs" (U+00B5), "μs" (U+03BC), "ms", "s", "m", "h".
UNIT_MAP ==
  (<<110, 115>> :> NANOSECOND) @@
  (<<117, 115>> :> MICROSECOND) @@
  (<<194, 181, 115>> :> MICROSECOND) @@
  (<<206, 188, 115>> :> MICROSECOND) @@
  (<<109, 115>> :> MILLISECOND) @@
  (<<115>> :> SECOND) @@
  (<<109>> :> MINUTE) @@
  (<<104>> :> HOUR)

\* The values `scale` takes in leading_fraction, 1.0 multiplied k times by
\* 10.0 for k = 0..22, and `unit as f64 / scale` for them, computed once.
F64One == F64OfNat(<<1>>)
F64Ten == F64OfNat(<<10>>)

RECURSIVE F64ScaleSeq(_)
F64ScaleSeq(n) ==
  IF n = 0 THEN <<F64One>>
  ELSE LET p == F64ScaleSeq(n - 1) IN Append(p, F64Mul(p[n], F64Ten))

F64ScaleTable == F64ScaleSeq(22)

UnitValues == <<NANOSECOND, MICROSECOND, MILLISECOND, SECOND, MINUTE, HOUR>>

F64UnitOverScaleTable ==
  SubSeq([i \in 1..6 |->
            SubSeq([k \in 1..23 |->
                      F64Div(F64OfNat(UnitValues[i]), F64ScaleTable[k])], 1, 23)],
         1, 6)

\* scale * 10.0
F64TimesTen(scale) ==
  LET hit == {k \in 1..22 : F64ScaleTable[k] = scale}
  IN  IF hit # {} THEN F64ScaleTable[(CHOOSE k \in hit : TRUE) + 1]
      ELSE F64Mul(scale, F64Ten)

\* unit as f64 / scale
F64UnitOverScale(unit, scale) ==
  LET hit == {ik \in (1..6) \X (1..23) :
                UnitValues[ik[1]] = unit /\ F64ScaleTable[ik[2]] = scale}
  IN  IF hit # {}
      THEN LET ik == CHOOSE ik \in hit : TRUE
           IN  F64UnitOverScaleTable[ik[1]][ik[2]]
      ELSE F64Div(F64OfNat(unit), scale)

(***************************************************************************)
(* The formatter: impl Display for Duration.  The program writes into the  *)
(* tail of a 32-byte buffer, right to left, and keeps the index w of the   *)
(* first byte written; here `out` is buf[w..], so w = BufLen - Len(out),   *)
(* and writing a byte at the decremented w is putting it in front of out.  *)
(***************************************************************************)
BufLen == 32

\* The loop of fmt_frac: st = [out, v, print], i the iterations left.
RECURSIVE fmt_frac_loop(_, _)
fmt_frac_loop(st, i) ==
  IF i = 0 THEN st
  ELSE LET digit == NatModSmall(st.v, 10)
           print == st.print \/ digit # 0
       IN  fmt_frac_loop([out |-> IF print THEN <<digit + Byte0>> \o st.out
                                  ELSE st.out,
                          v |-> NatDivSmall(st.v, 10),
                          print |-> print], i - 1)

\* fmt_frac: the fraction of v / 10^prec in front of out, without trailing
\* zeros and without the point when the fraction is 0; and v / 10^prec.
fmt_frac(out, v, prec) ==
  LET st == fmt_frac_loop([out |-> out, v |-> v, print |-> FALSE], prec)
  IN  [out |-> IF st.print THEN <<ByteDot>> \o st.out ELSE st.out, v |-> st.v]

\* The loop of fmt_int, for v > 0.
RECURSIVE fmt_int_loop(_, _)
fmt_int_loop(out, v) ==
  IF v = <<>> THEN out
  ELSE fmt_int_loop(<<NatModSmall(v, 10) + Byte0>> \o out, NatDivSmall(v, 10))

\* fmt_int without the digit of v = 0.
fmt_int_skip_zero(out, v) == IF v = <<>> THEN out ELSE fmt_int_loop(out, v)

\* fmt_int: the decimal digits of v in front of out.
fmt_int(out, v) ==
  IF v = <<>> THEN <<Byte0>> \o out ELSE fmt_int_loop(out, v)

\* i64::unsigned_abs
unsigned_abs(d) == d.mag

\* "-2562047h47m16.854775807s", the digits of i64::MAX after a '-'.
MinLiteralOfMax ==
  <<45, 50, 53, 54, 50, 48, 52, 55, 104, 52, 55, 109, 49, 54, 46,
    56, 53, 52, 55, 55, 53, 56, 48, 55, 115>>

\* "-2562047h47m16.854775808s"
MinLiteral ==
  <<45, 50, 53, 54, 50, 48, 52, 55, 104, 52, 55, 109, 49, 54, 46,
    56, 53, 52, 55, 55, 53, 56, 48, 56, 115>>

\* The branch of fmt for u < SECOND with "us" for the microseconds.
fmt_subsecond_ascii(u) ==
  IF NatLt(u, MICROSECOND) THEN fmt_int(fmt_frac(<<110, 115>>, u, 0).out, u)
  ELSE IF NatLt(u, MILLISECOND)
  THEN fmt_int(fmt_frac(<<117, 115>>, u, 3).out, NatDivSmall(u, 1000))
  ELSE fmt_int(fmt_frac(<<109, 115>>, u, 6).out, NatDiv(u, MILLISECOND))

\* The branch of fmt for u < SECOND with the micro sign written as the one
\* byte 181 (0xB5).
fmt_subsecond_one_byte(u) ==
  IF NatLt(u, MICROSECOND) THEN fmt_int(fmt_frac(<<110, 115>>, u, 0).out, u)
  ELSE IF NatLt(u, MILLISECOND)
  THEN fmt_int(fmt_frac(<<181, 115>>, u, 3).out, NatDivSmall(u, 1000))
  ELSE fmt_int(fmt_frac(<<109, 115>>, u, 6).out, NatDiv(u, MILLISECOND))

\* The branch of fmt for u < SECOND, u # 0: "ns" with no fraction, "µs"
\* (bytes 194 181 115) with 3 fractional digits, "ms" with 6.
fmt_subsecond(u) ==
  LET unit == IF NatLt(u, MICROSECOND) THEN <<110, 115>>
              ELSE IF NatLt(u, MILLISECOND) THEN <<194, 181, 115>>
              ELSE <<109, 115>>
      prec == IF NatLt(u, MICROSECOND) THEN 0
              ELSE IF NatLt(u, MILLISECOND) THEN 3
              ELSE 6
      fr == fmt_frac(unit, u, prec)
  IN  fmt_int(fr.out, fr.v)

\* The branch of fmt for u >= SECOND with the minutes taken as (u / SECOND)
\* mod 60, which is the number of seconds.
fmt_seconds_of_seconds(u) ==
  LET fr == fmt_frac(<<115>>, u, 9)
      secs == fmt_int(fr.out, NatOfInt(NatModSmall(fr.v, 60)))
      mins == NatDivSmall(fr.v, 60)
      hours == NatDivSmall(mins, 60)
  IN  IF mins = <<>> THEN secs
      ELSE LET withMin == fmt_int(<<109>> \o secs, NatOfInt(NatModSmall(fr.v, 60)))
           IN  IF hours = <<>> THEN withMin
               ELSE fmt_int(<<104>> \o withMin, hours)

\* The branch of fmt for u >= SECOND: seconds with 9 fractional digits,
\* then minutes if any, then hours if any.
fmt_seconds(u) ==
  LET fr == fmt_frac(<<115>>, u, 9)
      secs == fmt_int(fr.out, NatOfInt(NatModSmall(fr.v, 60)))
      mins == NatDivSmall(fr.v, 60)
      hours == NatDivSmall(mins, 60)
  IN  IF mins = <<>> THEN secs
      ELSE LET withMin == fmt_int(<<109>> \o secs, NatOfInt(NatModSmall(mins, 60)))
           IN  IF hours = <<>> THEN withMin
               ELSE fmt_int(<<104>> \o withMin, hours)

\* fmt for a magnitude without the '-' of a negative duration.
fmt_magnitude_unsigned(neg, u) ==
  IF NatLt(u, SECOND) /\ u = <<>> THEN <<Byte0, 115>>
  ELSE IF NatLt(u, SECOND) THEN fmt_subsecond(u)
  ELSE fmt_seconds(u)

\* What fmt does with the sign neg and the magnitude u once MIN is set aside.
fmt_magnitude(neg, u) ==
  IF NatLt(u, SECOND) /\ u = <<>> THEN <<Byte0, 115>>
  ELSE LET body == IF NatLt(u, SECOND) THEN fmt_subsecond(u) ELSE fmt_seconds(u)
       IN  IF neg THEN <<ByteMinus>> \o body ELSE body

\* Display::fmt with an empty format specification (to_string): f.pad writes
\* the bytes as they are.
fmt(d) ==
  IF d = I64_MIN THEN MinLiteral
  ELSE fmt_magnitude(d.neg, unsigned_abs(d))

(***************************************************************************)
(* The parser: impl FromStr for Duration, with leading_int and             *)
(* leading_fraction.                                                       *)
(***************************************************************************)
\* What from_str returns: Ok(Duration), one of the three errors, or no value
\* at all when the thread panics.
Ok(v) == [kind |-> "Ok", val |-> v, unit |-> <<>>]
Invalid == [kind |-> "Invalid", val |-> I64(FALSE, <<>>), unit |-> <<>>]
MissUnit == [kind |-> "MissUnit", val |-> I64(FALSE, <<>>), unit |-> <<>>]
UnknownUnit(u) == [kind |-> "UnknownUnit", val |-> I64(FALSE, <<>>), unit |-> u]
Panic == [kind |-> "Panic", val |-> I64(FALSE, <<>>), unit |-> <<>>]
NoResult == [kind |-> "None", val |-> I64(FALSE, <<>>), unit |-> <<>>]

\* (1 << 63) / 10 and i64::MAX / 10
TwoTo63Div10 == NatDivSmall(TwoTo63, 10)
I64MaxDiv10 == NatDivSmall(I64Max, 10)

\* The loop of leading_int at byte j with x accumulated.  x * 10 + digit is
\* at most 9223372036854775809 here, so the u64 arithmetic is exact.
RECURSIVE leading_int_loop(_, _, _)
leading_int_loop(s, j, x) ==
  IF j > Len(s) \/ ~is_ascii_digit(s[j])
  THEN [ok |-> TRUE, x |-> x, rest |-> SliceFrom(s, j)]
  ELSE IF NatGt(x, TwoTo63Div10)
  THEN [ok |-> FALSE, x |-> <<>>, rest |-> <<>>]
  ELSE LET y == NatAdd(NatMulSmall(x, 10), NatOfInt(s[j] - Byte0))
       IN  IF NatGt(y, TwoTo63)
           THEN [ok |-> FALSE, x |-> <<>>, rest |-> <<>>]
           ELSE leading_int_loop(s, j + 1, y)

\* leading_int: the leading [0-9]* of s as a u64 and the rest of s, or the
\* error when the number passes 2^63.
leading_int(s) == leading_int_loop(s, 1, <<>>)

\* The loop of leading_fraction at byte j; st = [x, scale, overflow].
\* x <= i64::MAX / 10 when y is computed, so x * 10 fits an i64 and only the
\* addition of the digit can pass i64::MAX: then an overflow-checked build
\* panics and another wraps to a negative y, which sets overflow.
RECURSIVE leading_fraction_loop(_, _, _, _)
leading_fraction_loop(s, j, st, build) ==
  IF j > Len(s) \/ ~is_ascii_digit(s[j])
  THEN [panic |-> FALSE, x |-> st.x, scale |-> st.scale, rest |-> SliceFrom(s, j)]
  ELSE IF st.overflow
  THEN leading_fraction_loop(s, j + 1, st, build)
  ELSE IF NatGt(st.x, I64MaxDiv10)
  THEN leading_fraction_loop(s, j + 1, [st EXCEPT !.overflow = TRUE], build)
  ELSE LET y == NatAdd(NatMulSmall(st.x, 10), NatOfInt(s[j] - Byte0))
       IN  IF NatGt(y, I64Max)
           THEN IF build = "debug"
                THEN [panic |-> TRUE, x |-> <<>>, scale |-> F64Zero, rest |-> <<>>]
                ELSE leading_fraction_loop(s, j + 1,
                                           [st EXCEPT !.overflow = TRUE], build)
           ELSE leading_fraction_loop(s, j + 1,
                  [x |-> y, scale |-> F64TimesTen(st.scale),
                   overflow |-> FALSE], build)

\* leading_fraction with the scale multiplied by ten for every digit of the
\* run, the ones left out of the accumulator included.
Dropped(st) == [st EXCEPT !.overflow = TRUE, !.scale = F64Mul(st.scale, F64Ten)]

RECURSIVE scaling_all_loop(_, _, _, _)
scaling_all_loop(s, j, st, build) ==
  IF j > Len(s) \/ ~is_ascii_digit(s[j])
  THEN [panic |-> FALSE, x |-> st.x, scale |-> st.scale, rest |-> SliceFrom(s, j)]
  ELSE IF st.overflow \/ NatGt(st.x, I64MaxDiv10)
  THEN scaling_all_loop(s, j + 1, Dropped(st), build)
  ELSE IF NatGt(NatAdd(NatMulSmall(st.x, 10), NatOfInt(s[j] - Byte0)), I64Max)
  THEN IF build = "debug"
       THEN [panic |-> TRUE, x |-> <<>>, scale |-> F64Zero, rest |-> <<>>]
       ELSE scaling_all_loop(s, j + 1, Dropped(st), build)
  ELSE scaling_all_loop(s, j + 1,
         [x |-> NatAdd(NatMulSmall(st.x, 10), NatOfInt(s[j] - Byte0)),
          scale |-> F64Mul(st.scale, F64Ten), overflow |-> FALSE], build)

leading_fraction_scaling_all(s, build) ==
  scaling_all_loop(s, 1, [x |-> <<>>, scale |-> F64One, overflow |-> FALSE],
                   build)

\* leading_fraction: the leading [0-9]* of s as (x, scale, rest), the
\* fraction being x / scale.
leading_fraction(s, build) ==
  leading_fraction_loop(s, 1, [x |-> <<>>, scale |-> F64One, overflow |-> FALSE],
                        build)

\* `d as i64` for a u64 d, and the negation of an i64 other than i64::MIN.
AsI64(d) ==
  IF NatLt(d, TwoTo63) THEN I64(FALSE, d) ELSE I64(TRUE, NatSub(TwoTo64, d))

NegI64(x) == I64(~x.neg, x.mag)

\* from_str, the sign: [neg, s] with s the input after one leading '+' or '-'.
from_str_sign(input) ==
  IF input = <<>> THEN [neg |-> FALSE, s |-> input]
  ELSE IF input[1] = ByteMinus \/ input[1] = BytePlus
  THEN [neg |-> input[1] = ByteMinus, s |-> SliceFrom(input, 2)]
  ELSE [neg |-> FALSE, s |-> input]

\* from_str before its loop: the sign is taken off, then "0" is Ok(0) and ""
\* is Invalid (ret tells that the function returns).
from_str_zero(sg) ==
  [neg |-> sg.neg, s |-> sg.s,
   ret |-> IF sg.s = <<Byte0>> THEN TRUE ELSE sg.s = <<>>,
   res |-> IF sg.s = <<Byte0>> THEN Ok(I64(FALSE, <<>>))
           ELSE IF sg.s = <<>> THEN Invalid
           ELSE NoResult]

\* The same with "0" looked for before the sign is taken off.
from_str_start_zero_first(input) ==
  IF input = <<Byte0>> THEN from_str_zero([neg |-> FALSE, s |-> input])
  ELSE [neg |-> from_str_sign(input).neg, s |-> from_str_sign(input).s,
        ret |-> from_str_sign(input).s = <<>>,
        res |-> IF from_str_sign(input).s = <<>> THEN Invalid ELSE NoResult]

from_str_start(input) == from_str_zero(from_str_sign(input))

\* What one pass of the `while !s.is_empty()` loop ends with: the function
\* returns res, or the loop goes on with the rest of s and the new d.
Return(res) == [ret |-> TRUE, res |-> res, s |-> <<>>, d |-> <<>>]
Continue(s, d) == [ret |-> FALSE, res |-> NoResult, s |-> s, d |-> d]

\* The unit scan: the number of leading bytes of s that are neither '.' nor
\* an ASCII digit, counted from i.
RECURSIVE unit_scan(_, _)
unit_scan(s, i) ==
  IF i >= Len(s) THEN i
  ELSE IF s[i + 1] = ByteDot \/ is_ascii_digit(s[i + 1]) THEN i
  ELSE unit_scan(s, i + 1)

\* `d += v` and the check of d: the loop goes on with the rest of s.
from_str_sum(d1, rest) ==
  IF d1.panic THEN Return(Panic)
  ELSE IF NatGt(d1.val, TwoTo63) THEN Return(Invalid)
  ELSE Continue(rest, d1.val)

\* `v += ((f as f64) * (unit as f64 / scale)) as u64` done (v2), and its check.
from_str_fraction(v2, rest, d, build) ==
  IF v2.panic THEN Return(Panic)
  ELSE IF NatGt(v2.val, TwoTo63) THEN Return(Invalid)
  ELSE from_str_sum(U64Add(d, v2.val, build), rest)

\* The same with the fraction computed in integers: floor(f * unit / scale).
from_str_product_exact(v1, f, scale, unit, rest, d, build) ==
  IF v1.panic THEN Return(Panic)
  ELSE IF f # <<>>
  THEN from_str_fraction(
         U64Add(v1.val, NatDiv(NatMul(f, unit), F64ToU64(scale)), build),
         rest, d, build)
  ELSE from_str_sum(U64Add(d, v1.val, build), rest)

\* `v *= unit` done (v1): the fraction is added when f > 0.
from_str_product(v1, f, scale, unit, rest, d, build) ==
  IF v1.panic THEN Return(Panic)
  ELSE IF f # <<>>
  THEN from_str_fraction(
         U64Add(v1.val,
                F64ToU64(F64Mul(F64OfNat(f), F64UnitOverScale(unit, scale))),
                build),
         rest, d, build)
  ELSE from_str_sum(U64Add(d, v1.val, build), rest)

\* The value of the term and the addition to d, once the unit is known.
from_str_value(v, f, scale, unit, rest, d, build) ==
  IF NatGt(v, NatDiv(TwoTo63, unit)) THEN Return(Invalid)
  ELSE from_str_product(U64Mul(v, unit, build), f, scale, unit, rest, d, build)

\* The unit of the term is the first i bytes of s: missing unit, lookup.
from_str_lookup(v, f, scale, s, i, d, build) ==
  IF i = 0 THEN Return(MissUnit)
  ELSE IF SubSeq(s, 1, i) \notin DOMAIN UNIT_MAP
  THEN Return(UnknownUnit(SubSeq(s, 1, i)))
  ELSE from_str_value(v, f, scale, UNIT_MAP[SubSeq(s, 1, i)],
                      SliceFrom(s, i + 1), d, build)

from_str_unit(v, f, scale, s, d, build) ==
  from_str_lookup(v, f, scale, s, unit_scan(s, 0), d, build)

\* The same without the check that the term has a digit.
from_str_digits_unchecked(pre, post, v, lf, d, build) ==
  IF lf.panic THEN Return(Panic)
  ELSE from_str_unit(v, lf.x, lf.scale, lf.rest, d, build)

\* The fraction of the term is read (lf; post tells whether it has a digit).
from_str_digits(pre, post, v, lf, d, build) ==
  IF lf.panic THEN Return(Panic)
  ELSE IF ~pre /\ ~post THEN Return(Invalid)
  ELSE from_str_unit(v, lf.x, lf.scale, lf.rest, d, build)

from_str_post(pre, v, pl, lf, d, build) ==
  from_str_digits(pre, pl # Len(lf.rest), v, lf, d, build)

\* The integer of the term is read (li): a '.' starts the fraction.
from_str_pre(s, li, d, build) ==
  IF ~li.ok THEN Return(Invalid)
  ELSE IF li.rest # <<>> /\ li.rest[1] = ByteDot
  THEN from_str_post(Len(s) # Len(li.rest), li.x, Len(li.rest) - 1,
                     leading_fraction(SliceFrom(li.rest, 2), build), d, build)
  ELSE from_str_digits(Len(s) # Len(li.rest), FALSE, li.x,
                       [panic |-> FALSE, x |-> <<>>, scale |-> F64Zero,
                        rest |-> li.rest], d, build)

\* One pass of the loop of from_str, for s not empty.
from_str_term(s, d, build) ==
  IF ~(s[1] = ByteDot \/ is_ascii_digit(s[1])) THEN Return(Invalid)
  ELSE from_str_pre(s, leading_int(s), d, build)

\* The sign applied with one bound, i64::MAX, for both signs.
from_str_finish_symmetric(neg, d) ==
  IF NatGt(d, I64Max) THEN Invalid
  ELSE IF neg THEN Ok(NegI64(AsI64(d)))
  ELSE Ok(AsI64(d))

\* from_str after the loop: the sign is applied to d.
from_str_finish(neg, d) ==
  IF neg
  THEN LET x == AsI64(d)
       IN  IF x # I64_MIN THEN Ok(NegI64(x)) ELSE Ok(x)
  ELSE IF NatGt(d, I64Max) THEN Invalid
  ELSE Ok(AsI64(d))

(***************************************************************************)
(* The inputs.  A caller hands from_str a string, or formats a Duration   *)
(* and hands from_str the text.                                           *)
(***************************************************************************)
\* Terms at the edges of the parser's arithmetic.
TermPool ==
  {
    \* "1ns"
    <<49, 110, 115>>,
    \* "9223372036854775807ns"
    <<57, 50, 50, 51, 51, 55, 50, 48, 51, 54, 56, 53, 52, 55, 55, 53, 56, 48, 55, 110, 115>>,
    \* "9223372036854775808ns"
    <<57, 50, 50, 51, 51, 55, 50, 48, 51, 54, 56, 53, 52, 55, 55, 53, 56, 48, 56, 110, 115>>,
    \* "9223372036854775809ns"
    <<57, 50, 50, 51, 51, 55, 50, 48, 51, 54, 56, 53, 52, 55, 55, 53, 56, 48, 57, 110, 115>>,
    \* "2562047h"
    <<50, 53, 54, 50, 48, 52, 55, 104>>,
    \* "2562048h"
    <<50, 53, 54, 50, 48, 52, 56, 104>>,
    \* "47m"
    <<52, 55, 109>>,
    \* "16.854775808s"
    <<49, 54, 46, 56, 53, 52, 55, 55, 53, 56, 48, 56, 115>>,
    \* "9223372036854775.808us"
    <<57, 50, 50, 51, 51, 55, 50, 48, 51, 54, 56, 53, 52, 55, 55, 53, 46, 56, 48, 56, 117, 115>>,
    \* "9223372036854775.809\u00B5s"
    <<57, 50, 50, 51, 51, 55, 50, 48, 51, 54, 56, 53, 52, 55, 55, 53, 46, 56, 48, 57, 194, 181, 115>>,
    \* "0.3333333333333333333h"
    <<48, 46, 51, 51, 51, 51, 51, 51, 51, 51, 51, 51, 51, 51, 51, 51, 51, 51, 51, 51, 51, 104>>,
    \* "0.9223372036854775808s"
    <<48, 46, 57, 50, 50, 51, 51, 55, 50, 48, 51, 54, 56, 53, 52, 55, 55, 53, 56, 48, 56, 115>>,
    \* "9223372036854775809"
    <<57, 50, 50, 51, 51, 55, 50, 48, 51, 54, 56, 53, 52, 55, 55, 53, 56, 48, 57>>,
    \* "0.9223372036854775808"
    <<48, 46, 57, 50, 50, 51, 51, 55, 50, 48, 51, 54, 56, 53, 52, 55, 55, 53, 56, 48, 56>>,
    \* "9223372036854775809xs"
    <<57, 50, 50, 51, 51, 55, 50, 48, 51, 54, 56, 53, 52, 55, 55, 53, 56, 48, 57, 120, 115>>,
    \* "0.9223372036854775808xs"
    <<48, 46, 57, 50, 50, 51, 51, 55, 50, 48, 51, 54, 56, 53, 52, 55, 55, 53, 56, 48, 56, 120, 115>>
  }

\* The inputs of the parser's tests and documentation, and more of their kind.
SampleInputs ==
  {
    \* "1<DEL>s"
    <<49, 127, 115>>,
    \* "1"s"
    <<49, 34, 115>>,
    \* "1\\s"
    <<49, 92, 115>>,
    \* "1<TAB>s"
    <<49, 9, 115>>,
    \* "1<NUL>"
    <<49, 0>>,
    \* "1~"
    <<49, 126>>,
    \* "1\u00B5"
    <<49, 194, 181>>,
    \* "1\u0080"
    <<49, 194, 128>>,
    \* "1\u20AC"
    <<49, 226, 130, 172>>,
    \* "1\U0001F600 (four bytes)"
    <<49, 240, 159, 152, 128>>,
    \* "1\u00B5"<DEL>\\ s"
    <<49, 194, 181, 34, 127, 92, 32, 115>>,
    \* "0.100000000000000000000h"
    <<48, 46, 49, 48, 48, 48, 48, 48, 48, 48, 48, 48, 48, 48, 48, 48, 48, 48, 48, 48, 48, 48, 48, 104>>,
    \* "0.830103483285477580700h"
    <<48, 46, 56, 51, 48, 49, 48, 51, 52, 56, 51, 50, 56, 53, 52, 55, 55, 53, 56, 48, 55, 48, 48, 104>>,
    \* ""
    <<>>,
    \* "+"
    <<43>>,
    \* "-"
    <<45>>,
    \* "."
    <<46>>,
    \* ".s"
    <<46, 115>>,
    \* "1.5h.s"
    <<49, 46, 53, 104, 46, 115>>,
    \* ".5s"
    <<46, 53, 115>>,
    \* "5.s"
    <<53, 46, 115>>,
    \* "5.0s"
    <<53, 46, 48, 115>>,
    \* "5"
    <<53>>,
    \* "5."
    <<53, 46>>,
    \* "1.2.3s"
    <<49, 46, 50, 46, 51, 115>>,
    \* "1h5"
    <<49, 104, 53>>,
    \* "5xs"
    <<53, 120, 115>>,
    \* "5s-"
    <<53, 115, 45>>,
    \* "5h "
    <<53, 104, 32>>,
    \* "00"
    <<48, 48>>,
    \* "0.0"
    <<48, 46, 48>>,
    \* "1"
    <<49>>,
    \* "0"
    <<48>>,
    \* "-0"
    <<45, 48>>,
    \* "+0"
    <<43, 48>>,
    \* "5s"
    <<53, 115>>,
    \* "30s"
    <<51, 48, 115>>,
    \* "1478s"
    <<49, 52, 55, 56, 115>>,
    \* "-5s"
    <<45, 53, 115>>,
    \* "+5s"
    <<43, 53, 115>>,
    \* "5.6s"
    <<53, 46, 54, 115>>,
    \* "1.0s"
    <<49, 46, 48, 115>>,
    \* "1.00s"
    <<49, 46, 48, 48, 115>>,
    \* "1.004s"
    <<49, 46, 48, 48, 52, 115>>,
    \* "1.0040s"
    <<49, 46, 48, 48, 52, 48, 115>>,
    \* "100.00100s"
    <<49, 48, 48, 46, 48, 48, 49, 48, 48, 115>>,
    \* "10ns"
    <<49, 48, 110, 115>>,
    \* "11us"
    <<49, 49, 117, 115>>,
    \* "12\u00B5s"
    <<49, 50, 194, 181, 115>>,
    \* "12\u03BCs"
    <<49, 50, 206, 188, 115>>,
    \* "13ms"
    <<49, 51, 109, 115>>,
    \* "14s"
    <<49, 52, 115>>,
    \* "15m"
    <<49, 53, 109>>,
    \* "16h"
    <<49, 54, 104>>,
    \* "3h30m"
    <<51, 104, 51, 48, 109>>,
    \* "10.5s4m"
    <<49, 48, 46, 53, 115, 52, 109>>,
    \* "-2m3.4s"
    <<45, 50, 109, 51, 46, 52, 115>>,
    \* "1h2m3s4ms5us6ns"
    <<49, 104, 50, 109, 51, 115, 52, 109, 115, 53, 117, 115, 54, 110, 115>>,
    \* "39h9m14.425s"
    <<51, 57, 104, 57, 109, 49, 52, 46, 52, 50, 53, 115>>,
    \* "52763797000ns"
    <<53, 50, 55, 54, 51, 55, 57, 55, 48, 48, 48, 110, 115>>,
    \* "9007199254740993ns"
    <<57, 48, 48, 55, 49, 57, 57, 50, 53, 52, 55, 52, 48, 57, 57, 51, 110, 115>>,
    \* "9223372036854775.807us"
    <<57, 50, 50, 51, 51, 55, 50, 48, 51, 54, 56, 53, 52, 55, 55, 53, 46, 56, 48, 55, 117, 115>>,
    \* "9223372036s854ms775us807ns"
    <<57, 50, 50, 51, 51, 55, 50, 48, 51, 54, 115, 56, 53, 52, 109, 115, 55, 55, 53, 117, 115, 56, 48, 55, 110, 115>>,
    \* "-9223372036854775.808us"
    <<45, 57, 50, 50, 51, 51, 55, 50, 48, 51, 54, 56, 53, 52, 55, 55, 53, 46, 56, 48, 56, 117, 115>>,
    \* "-9223372036s854ms775us808ns"
    <<45, 57, 50, 50, 51, 51, 55, 50, 48, 51, 54, 115, 56, 53, 52, 109, 115, 55, 55, 53, 117, 115, 56, 48, 56, 110, 115>>,
    \* "-2562047h47m16.854775808s"
    <<45, 50, 53, 54, 50, 48, 52, 55, 104, 52, 55, 109, 49, 54, 46, 56, 53, 52, 55, 55, 53, 56, 48, 56, 115>>,
    \* "0.100000000000000000000h"
    <<48, 46, 49, 48, 48, 48, 48, 48, 48, 48, 48, 48, 48, 48, 48, 48, 48, 48, 48, 48, 48, 48, 48, 104>>,
    \* "0.830103483285477580700h"
    <<48, 46, 56, 51, 48, 49, 48, 51, 52, 56, 51, 50, 56, 53, 52, 55, 55, 53, 56, 48, 55, 48, 48, 104>>,
    \* "1x5"
    <<49, 120, 53>>,
    \* "-.s"
    <<45, 46, 115>>,
    \* "+-5s"
    <<43, 45, 53, 115>>,
    \* "5s+5s"
    <<53, 115, 43, 53, 115>>,
    \* "1.5h.5m"
    <<49, 46, 53, 104, 46, 53, 109>>
  }

MaxLen == 3
MaxTerms == 2
MaxCoef == 2
MaxDelta == 2

\* '+', '-', '0', '5', '.', 's', 'm', 'x'
Alphabet == {<<BytePlus>>, <<ByteMinus>>, <<Byte0>>, <<53>>, <<ByteDot>>,
             <<115>>, <<109>>, <<120>>}

RECURSIVE StringsOfLen(_)
StringsOfLen(n) ==
  IF n = 0 THEN {<<>>}
  ELSE {c \o t : c \in Alphabet, t \in StringsOfLen(n - 1)}

\* Every string of at most MaxLen characters of the alphabet.
ShortInputs == UNION {StringsOfLen(n) : n \in 0..MaxLen}

RECURSIVE TermSeqs(_)
TermSeqs(n) ==
  IF n = 0 THEN {<<>>}
  ELSE {t \o r : t \in TermPool, r \in TermSeqs(n - 1)}

\* An optional sign and one to MaxTerms terms of the pool.
PoolInputs ==
  {sg \o t : sg \in {<<>>, <<BytePlus>>, <<ByteMinus>>},
             t \in UNION {TermSeqs(n) : n \in 1..MaxTerms}}

Inputs == ShortInputs \cup SampleInputs \cup PoolInputs

\* Magnitudes around the multiples of every unit, below 2^63, and of the
\* formatter's tests.
Magnitudes ==
  {NatAdd(NatMulSmall(UnitValues[i], c), NatOfInt(e)) :
     i \in 1..6, c \in 0..MaxCoef, e \in 0..MaxDelta}
  \cup {NatSub(NatMulSmall(UnitValues[i], c), NatOfInt(e)) :
     i \in 1..6, c \in 1..MaxCoef, e \in 0..MaxDelta}
  \cup {NatSub(TwoTo63, NatOfInt(e)) : e \in 0..(MaxDelta + 1)}
  \cup {NatOfDigits(ds) : ds \in
         { <<1, 1, 0, 0>>, <<2, 2, 0, 0, 0, 0, 0>>, <<3, 3, 0, 0, 0, 0, 0, 0, 0, 0>>,
           <<2, 4, 5, 0, 0, 0, 0, 0, 0, 0, 0, 0>>,
           <<2, 4, 5, 0, 0, 1, 0, 0, 0, 0, 0, 0>>,
           <<1, 8, 3, 6, 7, 0, 0, 1, 0, 0, 0, 0, 0, 0>>,
           <<4, 8, 0, 0, 0, 0, 0, 0, 0, 0, 0, 1>>,
           <<1, 2, 3, 4, 5, 6, 7, 8, 9>>, <<5, 9, 9, 9, 9, 9, 9, 9, 9, 9, 9>>,
           <<3, 5, 9, 9, 9, 9, 9, 9, 9, 9, 9, 9, 9>> }}

\* Every i64 with one of these magnitudes: 2^63 only as i64::MIN.
Durations ==
  {I64(n, m) : n \in BOOLEAN, m \in Magnitudes} \ {I64(FALSE, TwoTo63)}

(***************************************************************************)
(* i64 arithmetic of the value type.  An integer of any size is a record   *)
(* [neg, mag]; `+`, `-`, `*` and unary `-` on an i64 whose exact result    *)
(* does not fit panic in a build with overflow checks and wrap modulo 2^64 *)
(* in one without; `/` and `%` panic in every build on a zero divisor and  *)
(* on i64::MIN over -1.                                                    *)
(***************************************************************************)
IntNeg(x) == I64(~x.neg, x.mag)

IntAdd(x, y) ==
  IF x.neg = y.neg THEN I64(x.neg, NatAdd(x.mag, y.mag))
  ELSE IF NatGe(x.mag, y.mag) THEN I64(x.neg, NatSub(x.mag, y.mag))
  ELSE I64(y.neg, NatSub(y.mag, x.mag))

IntSub(x, y) == IntAdd(x, IntNeg(y))

IntMul(x, y) == I64(x.neg # y.neg, NatMul(x.mag, y.mag))

\* x is in [i64::MIN, i64::MAX].
InI64(x) == IF x.neg THEN NatLe(x.mag, TwoTo63) ELSE NatLe(x.mag, I64Max)

\* `x as u64` for an integer x of any size: x modulo 2^64.
U64OfInt(x) ==
  IF x.neg THEN NatMod(NatSub(TwoTo64, NatMod(x.mag, TwoTo64)), TwoTo64)
  ELSE NatMod(x.mag, TwoTo64)

\* What an i64 operation with the exact result x gives: [panic, val].
I64Wrap(x, build) ==
  IF InI64(x) THEN [panic |-> FALSE, val |-> x]
  ELSE IF build = "debug" THEN [panic |-> TRUE, val |-> I64(FALSE, <<>>)]
  ELSE [panic |-> FALSE, val |-> AsI64(U64OfInt(x))]

\* i64 `%` and `/`: truncated division, the remainder with the sign of x.
i64_rem(x, y) ==
  IF y.mag = <<>> THEN [panic |-> TRUE, val |-> I64(FALSE, <<>>)]
  ELSE IF x = I64_MIN /\ y = I64(TRUE, <<1>>)
  THEN [panic |-> TRUE, val |-> I64(FALSE, <<>>)]
  ELSE [panic |-> FALSE, val |-> I64(x.neg, NatMod(x.mag, y.mag))]

i64_div(x, y) ==
  IF y.mag = <<>> THEN [panic |-> TRUE, val |-> I64(FALSE, <<>>)]
  ELSE IF x = I64_MIN /\ y = I64(TRUE, <<1>>)
  THEN [panic |-> TRUE, val |-> I64(FALSE, <<>>)]
  ELSE [panic |-> FALSE, val |-> I64(x.neg # y.neg, NatDiv(x.mag, y.mag))]

\* i64::checked_add and i64::checked_sub: [some, val].
checked_add(x, y) == [some |-> InI64(IntAdd(x, y)), val |-> IntAdd(x, y)]
checked_sub(x, y) == [some |-> InI64(IntSub(x, y)), val |-> IntSub(x, y)]

\* m # 0 for an i64 m.
IsNonZero(m) == m.mag # <<>>

\* m > 0 for an i64 m.
IsPositive(m) == ~m.neg /\ m.mag # <<>>

(***************************************************************************)
(* The operations of the value type.  Each gives [panic, val, divs]: the   *)
(* Duration returned unless the operation panicked, and the number of `/`  *)
(* and `%` it evaluated.                                                   *)
(***************************************************************************)
Returns(v, n) == [panic |-> FALSE, val |-> v, divs |-> n]
Panics(n) == [panic |-> TRUE, val |-> I64(FALSE, <<>>), divs |-> n]
NoOut == [panic |-> FALSE, val |-> I64(FALSE, <<>>), divs |-> -1]

\* The operation ends with the i64 operation w, after n divisions.
OfWrap(w, n) == IF w.panic THEN Panics(n) ELSE Returns(w.val, n)

\* abs without the case of MIN_DURATION.
abs_of_any(x, build) ==
  IF ~x.neg THEN Returns(x, 0) ELSE OfWrap(I64Wrap(IntNeg(x), build), 0)

\* Duration::abs
abs(x, build) ==
  IF ~x.neg THEN Returns(x, 0)
  ELSE IF x = MIN_DURATION THEN Returns(MAX_DURATION, 0)
  ELSE OfWrap(I64Wrap(IntNeg(x), build), 0)

\* Neg::neg
negate(x, build) ==
  IF x = MIN_DURATION THEN Returns(MIN_DURATION, 0)
  ELSE OfWrap(I64Wrap(IntNeg(x), build), 0)

\* Add::add, Sub::sub, Mul::mul, Div::div
add(x, y, build) == OfWrap(I64Wrap(IntAdd(x, y), build), 0)
sub(x, y, build) == OfWrap(I64Wrap(IntSub(x, y), build), 0)
mul(x, y, build) == OfWrap(I64Wrap(IntMul(x, y), build), 0)
div(x, y) == OfWrap(i64_div(x, y), 1)

\* Truncation with the remainder that is never negative: toward minus
\* infinity.
truncate_floor(x, m, build) ==
  IF ~IsPositive(m) THEN Returns(x, 0)
  ELSE IF i64_rem(x, m).val.neg
  THEN OfWrap(I64Wrap(IntSub(x, IntAdd(i64_rem(x, m).val, m)), build), 1)
  ELSE OfWrap(I64Wrap(IntSub(x, i64_rem(x, m).val), build), 1)

\* Duration::truncate, once self.0 % m.0 is r.
truncate_rem(x, r, build) ==
  IF r.panic THEN Panics(1) ELSE OfWrap(I64Wrap(IntSub(x, r.val), build), 1)

\* Duration::truncate
truncate(x, m, build) ==
  IF ~IsPositive(m) THEN Returns(x, 0)
  ELSE truncate_rem(x, i64_rem(x, m), build)

\* less_than_half with <= for <: a remainder of exactly half is rounded
\* toward zero.
at_most_half(x, y) ==
  NatLe(NatMod(NatMulSmall(U64OfInt(x), 2), TwoTo64), U64OfInt(y))

\* less_than_half: ((x as u64) << 1) < (y as u64), the shift dropping the
\* bit that leaves the u64.
less_than_half(x, y) ==
  NatLt(NatMod(NatMulSmall(U64OfInt(x), 2), TwoTo64), U64OfInt(y))

\* Duration::round for d < 0, once r is the negated remainder and t is
\* d + r: t, or t - m, or MIN_DURATION when t - m does not fit.
round_down_to(m, r, t, c) ==
  IF less_than_half(r, m) THEN Returns(t, 1)
  ELSE IF c.some THEN Returns(c.val, 1)
  ELSE Returns(MIN_DURATION, 1)

round_down(m, r, t) ==
  IF t.panic THEN Panics(1)
  ELSE round_down_to(m, r, t.val, checked_sub(t.val, m))

\* Duration::round for d < 0, once r = -(d % m) is computed.
round_neg(x, m, r, build) ==
  IF r.panic THEN Panics(1)
  ELSE round_down(m, r.val, I64Wrap(IntAdd(x, r.val), build))

\* round_up_to with a wrapping t + m in place of the checked one.
round_up_to_wrapping(m, r, t, c) ==
  IF less_than_half(r, m) THEN Returns(t, 1)
  ELSE Returns(AsI64(U64OfInt(c.val)), 1)

\* Duration::round for d >= 0, once t is d - r: t, or t + m, or
\* MAX_DURATION when t + m does not fit.
round_up_to(m, r, t, c) ==
  IF less_than_half(r, m) THEN Returns(t, 1)
  ELSE IF c.some THEN Returns(c.val, 1)
  ELSE Returns(MAX_DURATION, 1)

round_up(m, r, t) ==
  IF t.panic THEN Panics(1)
  ELSE round_up_to(m, r, t.val, checked_add(t.val, m))

\* round_rem with d in place of d - r for d >= 0.
round_rem_keeping_rem(x, m, r, build) ==
  IF r.panic THEN Panics(1)
  ELSE IF x.neg THEN round_neg(x, m, I64Wrap(IntNeg(r.val), build), build)
  ELSE round_up(m, r.val, I64Wrap(x, build))

\* Duration::round, once d % m is r.
round_rem(x, m, r, build) ==
  IF r.panic THEN Panics(1)
  ELSE IF x.neg THEN round_neg(x, m, I64Wrap(IntNeg(r.val), build), build)
  ELSE round_up(m, r.val, I64Wrap(IntSub(x, r.val), build))

\* Duration::round
round(x, m, build) ==
  IF ~IsPositive(m) THEN Returns(x, 0)
  ELSE round_rem(x, m, i64_rem(x, m), build)

\* The operands of the value operations: the integers around 0, 2^62 and
\* -2^62, those next to i64::MAX and i64::MIN, the unit constants and the
\* duration of the repository's examples, 1h15m30.918273645s.
OperandMagnitudes ==
  {NatOfInt(e) : e \in 0..(MaxDelta + 1)}
  \cup {NatAdd(NatPow2(62), NatOfInt(e)) : e \in 0..MaxDelta}
  \cup {NatSub(NatPow2(62), NatOfInt(e)) : e \in 0..MaxDelta}
  \cup {NatSub(TwoTo63, NatOfInt(e)) : e \in 0..(MaxDelta + 1)}
  \cup {SECOND, MINUTE, HOUR, NatPow2(32),
        NatOfDigits(<<4, 5, 3, 0, 9, 1, 8, 2, 7, 3, 6, 4, 5>>)}

Operands ==
  {I64(n, m) : n \in BOOLEAN, m \in OperandMagnitudes} \ {I64(FALSE, TwoTo63)}

\* The bytes of a sequence of decimal digits.
DigitBytes(ds) == [i \in 1..Len(ds) |-> ds[i] + Byte0]

\* Runs of fractional digits with 18 to 22 digits, around the place where
\* the accumulator of leading_fraction passes i64::MAX.
LongFractions ==
  {DigitBytes(ds) : ds \in
     { <<3, 3, 3, 3, 3, 3, 3, 3, 3, 3, 3, 3, 3, 3, 3, 3, 3, 3, 3>>,
       <<9, 2, 2, 3, 3, 7, 2, 0, 3, 6, 8, 5, 4, 7, 7, 5, 8, 0>>,
       <<9, 2, 2, 3, 3, 7, 2, 0, 3, 6, 8, 5, 4, 7, 7, 5, 8, 0, 7>>,
       <<9, 2, 2, 3, 3, 7, 2, 0, 3, 6, 8, 5, 4, 7, 7, 5, 8, 0, 8>>,
       <<9, 2, 2, 3, 3, 7, 2, 0, 3, 6, 8, 5, 4, 7, 7, 5, 8, 0, 9>>,
       <<9, 2, 2, 3, 3, 7, 2, 0, 3, 6, 8, 5, 4, 7, 7, 5, 8, 1, 0>>,
       <<9, 2, 2, 3, 3, 7, 2, 0, 3, 6, 8, 5, 4, 7, 7, 5, 8, 0, 7, 9, 9>>,
       <<9, 9, 9, 9, 9, 9, 9, 9, 9, 9, 9, 9, 9, 9, 9, 9, 9, 9, 9, 9, 9, 9>>,
       <<0, 0, 0, 0, 0, 0, 0, 0, 0, 0, 0, 0, 0, 0, 0, 0, 0, 0, 0, 0, 0, 1>>,
       <<1, 0, 0, 0, 0, 0, 0, 0, 0, 0, 0, 0, 0, 0, 0, 0, 0, 0, 0, 0>>,
       <<1, 0, 0, 0, 0, 0, 0, 0, 0, 0, 0, 0, 0, 0, 0, 0, 0, 0, 0, 0, 0>>,
       <<8, 3, 0, 1, 0, 3, 4, 8, 3, 2, 8, 5, 4, 7, 7, 5, 8, 0, 7, 0, 0>> }}

\* What leading_fraction is called on: a run of digits, short or long, and
\* what follows it.
FractionInputs ==
  {r \o tl : r \in LongFractions
                   \cup UNION {[1..n -> {48, 53, 57}] : n \in 0..MaxLen},
             tl \in {<<>>, <<115>>, <<46, 53>>}}

(***************************************************************************)
(* The text of an error: impl Display for DurationParseError, and quote.   *)
(* A str is its UTF-8 bytes; a char is its code point, and a String that   *)
(* is built char by char is the sequence of its chars.                     *)
(***************************************************************************)
RUNE_SELF == 128

\* The number of bytes of the char whose first byte is b.
utf8_width(b) ==
  IF b < 128 THEN 1 ELSE IF b < 224 THEN 2 ELSE IF b < 240 THEN 3 ELSE 4

\* The code point of the char of w bytes at byte i of str.
utf8_char(str, i, w) ==
  IF w = 1 THEN str[i]
  ELSE IF w = 2 THEN (str[i] % 32) * 64 + (str[i + 1] % 64)
  ELSE IF w = 3
  THEN (str[i] % 16) * 4096 + (str[i + 1] % 64) * 64 + (str[i + 2] % 64)
  ELSE (str[i] % 8) * 262144 + (str[i + 1] % 64) * 4096
       + (str[i + 2] % 64) * 64 + (str[i + 3] % 64)

\* str::chars: the chars of str from byte i on.
RECURSIVE chars_from(_, _)
chars_from(str, i) ==
  IF i > Len(str) THEN <<>>
  ELSE <<utf8_char(str, i, utf8_width(str[i]))>>
       \o chars_from(str, i + utf8_width(str[i]))

chars(str) == chars_from(str, 1)

\* char::escape_unicode: \u{NNNN}, the code point in lower-case hexadecimal
\* digits without leading zeros.
hex_digit(n) == IF n < 10 THEN Byte0 + n ELSE 87 + n

RECURSIVE hex_digits(_)
hex_digits(c) ==
  IF c < 16 THEN <<hex_digit(c)>>
  ELSE Append(hex_digits(c \div 16), hex_digit(c % 16))

escape_unicode(c) == <<92, 117, 123>> \o hex_digits(c) \o <<125>>

\* quote, one char: a char below RUNE_SELF and not below ' ' is pushed as
\* it is, after a '\' when it is '"' or '\'; any other char is escaped.
quote_char(c) ==
  IF c < RUNE_SELF /\ c >= 32
  THEN (IF c = 34 \/ c = 92 THEN <<92>> ELSE <<>>) \o <<c>>
  ELSE escape_unicode(c)

RECURSIVE quote_chars(_, _)
quote_chars(cs, k) ==
  IF k > Len(cs) THEN <<>>
  ELSE quote_char(cs[k]) \o quote_chars(cs, k + 1)

\* quote: the chars of s between two '"'.
quote(str) == <<34>> \o quote_chars(chars(str), 1) \o <<34>>

\* The Display of DurationParseError.
\* "invalid duration"
InvalidText == <<105, 110, 118, 97, 108, 105, 100, 32, 100, 117, 114, 97, 116, 105, 111, 110>>
\* "missing unit in duration"
MissUnitText ==
  <<109, 105, 115, 115, 105, 110, 103, 32, 117, 110, 105, 116, 32, 105, 110, 32, 100, 117, 114, 97, 116, 105, 111, 110>>
\* "unknown unit "
UnknownUnitText == <<117, 110, 107, 110, 111, 119, 110, 32, 117, 110, 105, 116, 32>>

error_text(e) ==
  IF e.kind = "Invalid" THEN InvalidText
  ELSE IF e.kind = "MissUnit" THEN MissUnitText
  ELSE UnknownUnitText \o quote(e.unit)

(***************************************************************************)
(* The state: a caller formats `dur` into `input` (pc = "fmt") or brings    *)
(* `input` itself, then from_str runs on it: the sign and the "0" and ""    *)
(* cases (pc = "start"), the loop, one term a step (pc = "loop"), and the   *)
(* return (pc = "done", the result in res).  neg, s, d are from_str's       *)
(* variables; ts and d0 remember s and d as the last term found them.       *)
(* A caller may also apply one operation of the value type to dur and arg  *)
(* (pc = "call"; op names the operation and out is what it gave), or call  *)
(* leading_fraction on input (pc = "digits"; frac is what it gave).        *)
(* passes counts the passes of from_str's loop.  A caller who got an error *)
(* may format it (msg is the text), and one who rounded or truncated may   *)
(* apply the same operation to the result (again is what that gave).       *)
(***************************************************************************)
VARIABLES build, origin, dur, input, pc, neg, s, d, ts, d0, res,
          arg, op, out, frac, passes, msg, again

vars ==
  <<build, origin, dur, input, pc, neg, s, d, ts, d0, res, arg, op, out, frac,
    passes, msg, again>>

NoFraction == [panic |-> FALSE, x |-> <<>>, scale |-> F64Zero, rest |-> <<>>]

Init ==
  /\ build \in Builds
  /\ \/ origin = "format" /\ dur \in Durations /\ input = <<>> /\ pc = "fmt"
        /\ arg = I64(FALSE, <<>>)
     \/ origin = "caller" /\ dur = I64(FALSE, <<>>) /\ input \in Inputs
        /\ pc = "start" /\ arg = I64(FALSE, <<>>)
     \/ origin = "value" /\ dur \in Operands /\ arg \in Operands
        /\ input = <<>> /\ pc = "call"
     \/ origin = "fraction" /\ dur = I64(FALSE, <<>>)
        /\ arg = I64(FALSE, <<>>) /\ input \in FractionInputs /\ pc = "digits"
  /\ neg = FALSE
  /\ s = <<>>
  /\ d = <<>>
  /\ ts = <<>>
  /\ d0 = <<>>
  /\ res = NoResult
  /\ op = ""
  /\ out = NoOut
  /\ frac = NoFraction
  /\ passes = 0
  /\ msg = <<>>
  /\ again = NoOut

\* to_string: Display::fmt.
Format ==
  /\ pc = "fmt"
  /\ input' = fmt(dur)
  /\ pc' = "start"
  /\ UNCHANGED <<build, origin, dur, neg, s, d, ts, d0, res>>
  /\ UNCHANGED <<arg, op, out, frac, passes, msg, again>>

\* from_str starts as st says: the function returns st.res, or its loop
\* begins on st.s.
Starts(st) ==
  /\ neg' = st.neg
  /\ s' = st.s
  /\ res' = st.res
  /\ pc' = IF st.ret THEN "done" ELSE "loop"

\* from_str up to its loop: the sign, "0", "".
ParseStart ==
  /\ pc = "start"
  /\ Starts(from_str_start(input))
  /\ d' = <<>>
  /\ UNCHANGED <<build, origin, dur, input, ts, d0>>
  /\ UNCHANGED <<arg, op, out, frac, passes, msg, again>>

\* One pass of from_str's loop ends as t says: the function returns t.res,
\* or the loop goes on with t.s and t.d.
LoopEnds(t) ==
  /\ res' = t.res
  /\ pc' = IF t.ret THEN "done" ELSE "loop"
  /\ s' = IF t.ret THEN s ELSE t.s
  /\ d' = IF t.ret THEN d ELSE t.d

\* One pass of from_str's loop: a term is read and added to d, or the
\* function returns.
ParseTerm ==
  /\ pc = "loop"
  /\ s # <<>>
  /\ LoopEnds(from_str_term(s, d, build))
  /\ ts' = s
  /\ d0' = d
  /\ passes' = passes + 1
  /\ UNCHANGED <<build, origin, dur, input, neg>>
  /\ UNCHANGED <<arg, op, out, frac, msg, again>>

\* from_str after its loop: the sign is applied and the function returns.
ParseFinish ==
  /\ pc = "loop"
  /\ s = <<>>
  /\ res' = from_str_finish(neg, d)
  /\ pc' = "done"
  /\ UNCHANGED <<build, origin, dur, input, neg, s, d, ts, d0>>
  /\ UNCHANGED <<arg, op, out, frac, passes, msg, again>>

\* The operation named name has run on dur and arg and has given o.
Called(name, o) ==
  /\ op' = name
  /\ out' = o
  /\ pc' = "returned"
  /\ UNCHANGED <<build, origin, dur, arg, input, neg, s, d, ts, d0, res, frac>>
  /\ UNCHANGED <<passes, msg, again>>

Abs == pc = "call" /\ Called("abs", abs(dur, build))
Negate == pc = "call" /\ Called("neg", negate(dur, build))
Add == pc = "call" /\ Called("add", add(dur, arg, build))
Sub == pc = "call" /\ Called("sub", sub(dur, arg, build))
Mul == pc = "call" /\ Called("mul", mul(dur, arg, build))
Div == pc = "call" /\ Called("div", div(dur, arg))
Round == pc = "call" /\ Called("round", round(dur, arg, build))
Truncate == pc = "call" /\ Called("truncate", truncate(dur, arg, build))

\* leading_fraction has run on input.
LeadingFraction ==
  /\ pc = "digits"
  /\ frac' = leading_fraction(input, build)
  /\ pc' = "returned"
  /\ UNCHANGED <<build, origin, dur, arg, input, neg, s, d, ts, d0, res, op, out>>
  /\ UNCHANGED <<passes, msg, again>>

\* The operation has run on its own result and arg and has given o.
CalledAgain(o) ==
  /\ again' = o
  /\ pc' = "again"
  /\ UNCHANGED <<build, origin, dur, arg, input, neg, s, d, ts, d0, res, frac>>
  /\ UNCHANGED <<op, out, passes, msg>>

\* round(m) and truncate(m) applied to what they returned.
RoundAgain ==
  pc = "returned" /\ op = "round" /\ ~out.panic
  /\ CalledAgain(round(out.val, arg, build))
TruncateAgain ==
  pc = "returned" /\ op = "truncate" /\ ~out.panic
  /\ CalledAgain(truncate(out.val, arg, build))

\* The caller formats the error from_str returned: to_string of the error.
ErrorText ==
  /\ pc = "done"
  /\ res.kind \in {"Invalid", "MissUnit", "UnknownUnit"}
  /\ msg = <<>>
  /\ msg' = error_text(res)
  /\ UNCHANGED <<build, origin, dur, input, pc, neg, s, d, ts, d0, res>>
  /\ UNCHANGED <<arg, op, out, frac, passes, again>>

Next ==
  \/ Format
  \/ ParseStart
  \/ ParseTerm
  \/ ParseFinish
  \/ Abs
  \/ Negate
  \/ Add
  \/ Sub
  \/ Mul
  \/ Div
  \/ Round
  \/ Truncate
  \/ LeadingFraction
  \/ ErrorText
  \/ RoundAgain
  \/ TruncateAgain

Spec == Init /\ [][Next]_vars


(***************************************************************************)
(* What the specification says of a text, read off the text itself and of  *)
(* a magnitude, by division: the definitions below use none of the         *)
(* operators that model fmt and from_str.                                   *)
(***************************************************************************)
DigitByte(c) == c \in 48..57

SetMin(S) == CHOOSE m \in S : \A x \in S : m <= x

\* The text without one leading '+' or '-'.
Unsigned(str) ==
  IF str # <<>> /\ (str[1] = 43 \/ str[1] = 45) THEN SubSeq(str, 2, Len(str))
  ELSE str

\* The length of the longest run of digits of str that starts at position i.
DigitRun(str, i) ==
  LET stops == {j \in i..Len(str) : ~DigitByte(str[j])}
  IN  (IF stops = {} THEN Len(str) + 1 ELSE SetMin(stops)) - i

\* The number a term t starts with: the digits before the point, whether a
\* point follows them, the digits after the point, and what follows.
NumberOf(t) ==
  LET ni == DigitRun(t, 1)
      dot == ni < Len(t) /\ t[ni + 1] = 46
      nf == IF dot THEN DigitRun(t, ni + 2) ELSE 0
      used == ni + (IF dot THEN 1 ELSE 0) + nf
  IN  [int |-> SubSeq(t, 1, ni),
       frac |-> IF dot THEN SubSeq(t, ni + 2, ni + 1 + nf) ELSE <<>>,
       rest |-> SubSeq(t, used + 1, Len(t))]

HasDigit(n) == Len(n.int) + Len(n.frac) >= 1

\* The longest run of bytes at the start of r that are neither '.' nor a
\* digit.
UnitRun(r) ==
  LET stops == {j \in 1..Len(r) : r[j] = 46 \/ DigitByte(r[j])}
  IN  SubSeq(r, 1, IF stops = {} THEN Len(r) ELSE SetMin(stops) - 1)

AfterUnit(n) == SubSeq(n.rest, Len(UnitRun(n.rest)) + 1, Len(n.rest))

\* r is one or more complete terms: each has a digit and ends in a unit.
RECURSIVE CompleteTerms(_)
CompleteAfter(r) == r = <<>> \/ CompleteTerms(r)

CompleteFrom(n) ==
  /\ HasDigit(n)
  /\ UnitRun(n.rest) # <<>>
  /\ CompleteAfter(AfterUnit(n))

CompleteTerms(r) == CompleteFrom(NumberOf(r))

\* The unit table of the specification.
RefUnits ==
  (<<110, 115>> :> <<1>>) @@ (<<117, 115>> :> <<1000>>)
  @@ (<<194, 181, 115>> :> <<1000>>) @@ (<<206, 188, 115>> :> <<1000>>)
  @@ (<<109, 115>> :> NatOfDigits(<<1, 0, 0, 0, 0, 0, 0>>))
  @@ (<<115>> :> NatOfDigits(<<1, 0, 0, 0, 0, 0, 0, 0, 0, 0>>))
  @@ (<<109>> :> NatOfDigits(<<6, 0, 0, 0, 0, 0, 0, 0, 0, 0, 0>>))
  @@ (<<104>> :> NatOfDigits(<<3, 6, 0, 0, 0, 0, 0, 0, 0, 0, 0, 0, 0>>))

\* r is one or more complete terms and every unit is in the table.
RECURSIVE KnownTerms(_)
KnownTerms(r) ==
  /\ HasDigit(NumberOf(r))
  /\ UnitRun(NumberOf(r).rest) \in DOMAIN RefUnits
  /\ \/ AfterUnit(NumberOf(r)) = <<>>
     \/ KnownTerms(AfterUnit(NumberOf(r)))

\* The number written by digit bytes.
ValueOf(ds) == NatOfDigits([i \in 1..Len(ds) |-> ds[i] - 48])

\* The nanoseconds of the term with number n and unit value unit:
\* int * unit + floor(0.frac * unit).
TermNanos(n, unit) ==
  NatAdd(NatMul(ValueOf(n.int), unit),
         NatDiv(NatMul(ValueOf(n.frac), unit), NatPow10(Len(n.frac))))

\* The nanoseconds of a text of known terms, summed without a bound.
RECURSIVE TotalNanos(_)
TotalNanos(r) ==
  IF r = <<>> THEN <<>>
  ELSE NatAdd(TermNanos(NumberOf(r), RefUnits[UnitRun(NumberOf(r).rest)]),
              TotalNanos(AfterUnit(NumberOf(r))))

\* The decimal digits of a natural number as bytes, "0" for 0.
DecBytes(a) ==
  IF a = <<>> THEN <<48>>
  ELSE [i \in 1..Len(NatDigits(a)) |-> NatDigits(a)[i] + 48]

\* The fraction r / 10^prec as text: the point and prec digits without the
\* trailing zeros, nothing when r = 0.
FracBytes(r, prec) ==
  LET ds == NatDigits(r)
      all == [i \in 1..prec |->
                IF i <= prec - Len(ds) THEN 48 ELSE ds[i - (prec - Len(ds))] + 48]
      nz == {i \in 1..prec : all[i] # 48}
  IN  IF nz = {} THEN <<>>
      ELSE <<46>> \o SubSeq(all, 1, CHOOSE i \in nz : \A j \in nz : j <= i)

SignBytes(x) == IF x.neg THEN <<45>> ELSE <<>>

\* The state holds the text of dur: to_string has run.
Formatted == origin = "format" /\ pc # "fmt"

\* from_str has returned after its loop ran to the end of the text.
Finished == pc = "done" /\ s = <<>> /\ ts # <<>>

\* C1: formatting any duration, i64::MIN and i64::MAX among them, and
\* parsing the text gives back that duration.
C1_RoundTrip == (origin = "format" /\ pc = "done") => res = Ok(dur)

\* i64::MIN has gone through to_string and from_str and has come back.
C1_Witness ==
  origin = "format" /\ pc = "done" /\ dur = I64_MIN /\ res = Ok(I64_MIN)


\* C2: a text of well-formed terms whose magnitude exceeds 2^63 at some
\* stage (the integer part, its product with the unit, the fractional part
\* added, the running sum; each stage is at most the total) makes from_str
\* return Invalid: not a wrapped Ok, not an abort.  The text of two terms of
\* 2^63 ns each is one such text.
C2_ParserOverflow ==
  (/\ pc = "done"
   /\ KnownTerms(Unsigned(input))
   /\ NatGt(TotalNanos(Unsigned(input)), TwoTo63))
  => res = Invalid

\* "9223372036854775808ns"
TwoTo63Text == DecBytes(TwoTo63) \o <<110, 115>>

\* C3: when the loop ends with a magnitude d <= 2^63, a '-' gives Ok(-d),
\* which is i64::MIN for d = 2^63, and no '-' gives Ok(d) for d <= 2^63 - 1
\* and Invalid for d = 2^63; "-9223372036854775808ns" is i64::MIN and
\* "9223372036854775808ns" is Invalid.
C3_SignApplication ==
  /\ (Finished /\ NatLe(d, TwoTo63)) =>
       IF neg THEN res = Ok([neg |-> d # <<>>, mag |-> d])
       ELSE IF NatLe(d, NatSub(TwoTo63, <<1>>))
       THEN res = Ok([neg |-> FALSE, mag |-> d])
       ELSE res = Invalid
  /\ (pc = "done" /\ input = <<45>> \o TwoTo63Text)
       => res = Ok([neg |-> TRUE, mag |-> TwoTo63])
  /\ (pc = "done" /\ input = TwoTo63Text)
       => res = Invalid

\* "-9223372036854775808ns" has been parsed to i64::MIN.
C3_Witness ==
  /\ Finished
  /\ origin = "caller"
  /\ neg
  /\ d = TwoTo63
  /\ res = Ok(I64_MIN)

\* C4: with one leading sign taken off, the text "0" parses to the zero
\* duration; any other text that parses to Ok is one or more complete terms,
\* each ending in a unit.
C4_UnitlessZero ==
  pc = "done" =>
    /\ Unsigned(input) = <<48>> => res = Ok([neg |-> FALSE, mag |-> <<>>])
    /\ (res.kind = "Ok" /\ Unsigned(input) # <<48>>)
         => CompleteTerms(Unsigned(input))

\* "-0" has been parsed to the zero duration.
C4_Witness ==
  /\ pc = "done"
  /\ input = <<45, 48>>
  /\ res = Ok([neg |-> FALSE, mag |-> <<>>])

\* The term t has no digit where its number must be: it does not start with
\* a digit, or with a '.' that a digit follows.
NoDigitAt(t) ==
  IF DigitByte(t[1]) THEN FALSE
  ELSE IF t[1] # 46 THEN TRUE
  ELSE IF Len(t) = 1 THEN TRUE
  ELSE ~DigitByte(t[2])

\* C5: a text that is empty once the sign is off ("", "+", "-") is Invalid,
\* and so is a text with a term that has no digit on either side of the
\* point (".s", "."); ".5s", "5.s" and "5.0s" are accepted.
C5_MissingDigits ==
  /\ (pc = "done" /\ Unsigned(input) = <<>>) => res = Invalid
  /\ (ts # <<>> /\ NoDigitAt(ts)) => (pc = "done" /\ res = Invalid)
  /\ (pc = "done" /\ input = <<46, 53, 115>>)
       => res = Ok([neg |-> FALSE, mag |-> NatOfDigits(<<5, 0, 0, 0, 0, 0, 0, 0, 0>>)])
  /\ (pc = "done" /\ input \in {<<53, 46, 115>>, <<53, 46, 48, 115>>})
       => res = Ok([neg |-> FALSE, mag |-> NatOfDigits(<<5, 0, 0, 0, 0, 0, 0, 0, 0, 0>>)])

\* The second term of "1.5h.s" had no digit and from_str returned Invalid.
C5_Witness ==
  /\ pc = "done"
  /\ ts = <<46, 115>>
  /\ d0 # <<>>
  /\ res = Invalid

\* C6: a term that has a digit and whose number is followed by the end of
\* the text, a '.' or a digit ("5", "5.", "1.2.3s", "1h5") makes from_str
\* return MissUnit.
C6_MissingUnit ==
  (/\ ts # <<>>
   /\ HasDigit(NumberOf(ts))
   /\ UnitRun(NumberOf(ts).rest) = <<>>)
  => (pc = "done" /\ res = MissUnit)

\* sum and the integer part of the number n times the value of the unit u.
ScaledInt(sum, n, u) == NatAdd(sum, NatMul(ValueOf(n.int), RefUnits[u]))

\* C7: the unit of a term is the longest run of bytes after its number that
\* are neither '.' nor a digit; a run in the table scales the term by the
\* value the table gives, any other run makes from_str return UnknownUnit
\* with exactly that run ("xs", "s-", "h ").  Scaled: the sum grows by the
\* integer part times the unit, and by less than one unit more for the
\* fraction.
C7_UnitLookup ==
  (/\ ts # <<>>
   /\ HasDigit(NumberOf(ts))
   /\ UnitRun(NumberOf(ts).rest) # <<>>)
  => IF UnitRun(NumberOf(ts).rest) \in DOMAIN RefUnits
     THEN s # ts =>
            /\ s = AfterUnit(NumberOf(ts))
            /\ NatLe(ScaledInt(d0, NumberOf(ts), UnitRun(NumberOf(ts).rest)), d)
            /\ NatLe(d, NatAdd(ScaledInt(d0, NumberOf(ts), UnitRun(NumberOf(ts).rest)),
                               IF NumberOf(ts).frac = <<>> THEN <<>>
                               ELSE RefUnits[UnitRun(NumberOf(ts).rest)]))
     ELSE /\ pc = "done"
          /\ res = [kind |-> "UnknownUnit", val |-> [neg |-> FALSE, mag |-> <<>>],
                    unit |-> UnitRun(NumberOf(ts).rest)]


\* 10^3, 10^6, 10^9, 60 * 10^9 and 3600 * 10^9 as the specification
\* writes them.
RefMicro == <<1000>>
RefMilli == NatOfDigits(<<1, 0, 0, 0, 0, 0, 0>>)
RefSecond == NatOfDigits(<<1, 0, 0, 0, 0, 0, 0, 0, 0, 0>>)
RefMinute == NatOfDigits(<<6, 0, 0, 0, 0, 0, 0, 0, 0, 0, 0>>)
RefHour == NatOfDigits(<<3, 6, 0, 0, 0, 0, 0, 0, 0, 0, 0, 0, 0>>)

\* u / scale with up to prec fractional digits, then the unit.
ScaledText(u, scale, prec, unit) ==
  DecBytes(NatDiv(u, scale)) \o FracBytes(NatMod(u, scale), prec) \o unit

\* The text of a magnitude below one second.
SubSecondText(u) ==
  IF u = <<>> THEN <<48, 115>>
  ELSE IF NatLt(u, RefMicro) THEN ScaledText(u, <<1>>, 0, <<110, 115>>)
  ELSE IF NatLt(u, RefMilli) THEN ScaledText(u, RefMicro, 3, <<194, 181, 115>>)
  ELSE ScaledText(u, RefMilli, 6, <<109, 115>>)

\* The position of the first digit of the text of x.
FirstDigit(x) == IF x.neg THEN 2 ELSE 1

\* C8: the zero duration is "0s"; a magnitude below 1000 is the integer and
\* "ns"; from 1000 and below 10^6 it is |d| / 1000 with up to 3 fractional
\* digits and "µs" (bytes 194 181 115); from 10^6 and below 10^9 it is |d| / 10^6
\* with up to 6 fractional digits and "ms"; the integer part does not start
\* with 0 and the text has no hours and no minutes term.
C8_SubSecondFormat ==
  (Formatted /\ NatLt(dur.mag, RefSecond)) =>
    /\ input = SignBytes(dur) \o SubSecondText(dur.mag)
    /\ dur.mag # <<>> => input[FirstDigit(dur)] \in 49..57
    /\ \A i \in 1..Len(input) :
         /\ input[i] # 104
         /\ input[i] = 109 => (i = Len(input) - 1 /\ input[i + 1] = 115)

\* 1100 ns has been formatted as "1.1µs".
C8_Witness ==
  /\ Formatted
  /\ dur.mag = <<1100>>
  /\ input = SignBytes(dur) \o <<49, 46, 49, 194, 181, 115>>

\* The text of a magnitude u of one second or more whose minutes term, when
\* there is one, shows m: an hours term u / HOUR from one hour on, the
\* minutes term from one minute on, and the seconds (u / SECOND) mod 60 with
\* up to 9 fractional digits.
SecondsText(u, m) ==
  (IF NatGe(u, RefHour) THEN DecBytes(NatDiv(u, RefHour)) \o <<104>> ELSE <<>>)
  \o (IF NatGe(u, RefMinute) THEN DecBytes(m) \o <<109>> ELSE <<>>)
  \o DecBytes(NatMod(NatDiv(u, RefSecond), <<60>>))
  \o FracBytes(NatMod(u, RefSecond), 9)
  \o <<115>>

\* C9, with the minutes as the code computes them: the text of a magnitude
\* u >= SECOND ends in a seconds term with up to 9 fractional digits; a
\* minutes term with m = (u / MINUTE) mod 60 is before it exactly when
\* u >= MINUTE; an hours term with h = u / HOUR is before that exactly when
\* u >= HOUR; there is no larger unit.
C9_SecondsFormat ==
  (Formatted /\ NatGe(dur.mag, RefSecond)) =>
    input = SignBytes(dur)
            \o SecondsText(dur.mag, NatMod(NatDiv(dur.mag, RefMinute), <<60>>))

\* C9 as the specification states it, with m = (u / SECOND) mod 60.
C9_AsStated ==
  (Formatted /\ NatGe(dur.mag, RefSecond)) =>
    input = SignBytes(dur)
            \o SecondsText(dur.mag, NatMod(NatDiv(dur.mag, RefSecond), <<60>>))

\* 4 minutes and 5 seconds have been formatted as "4m5s".
C9_Witness ==
  /\ Formatted
  /\ dur.mag = NatOfDigits(<<2, 4, 5, 0, 0, 0, 0, 0, 0, 0, 0, 0>>)
  /\ input = SignBytes(dur) \o <<52, 109, 53, 115>>

\* "2562047h47m16.85477580" and the last digit c, then "s".
EndpointText(c) ==
  <<50, 53, 54, 50, 48, 52, 55, 104, 52, 55, 109, 49, 54, 46,
    56, 53, 52, 55, 55, 53, 56, 48, c, 115>>

\* What the formatter's general path gives for the magnitude 2^63.
MinMagnitudeText == fmt_magnitude(TRUE, TwoTo63)

\* C10: the text of i64::MIN is the literal "-2562047h47m16.854775808s",
\* which is what the steps for a magnitude give for 2^63 with a '-' in
\* front; the text of i64::MAX is "2562047h47m16.854775807s"; the steps for
\* a magnitude run only for a duration other than i64::MIN, whose magnitude
\* is at most 2^63 - 1, so that i64::MIN is never negated.
C10_Endpoints ==
  /\ MinMagnitudeText = <<45>> \o EndpointText(56)
  /\ Formatted =>
       /\ dur = [neg |-> TRUE, mag |-> TwoTo63]
            => input = <<45>> \o EndpointText(56)
       /\ dur = [neg |-> FALSE, mag |-> NatSub(TwoTo63, <<1>>)]
            => input = EndpointText(55)
       /\ dur # [neg |-> TRUE, mag |-> TwoTo63]
            => /\ NatLt(unsigned_abs(dur), TwoTo63)
               /\ input = fmt_magnitude(dur.neg, unsigned_abs(dur))

\* i64::MIN has been formatted as the literal.
C10_Witness ==
  /\ Formatted
  /\ dur = I64_MIN
  /\ input = <<45>> \o EndpointText(56)


\* C11, for the durations it holds for: for every Duration d with
\* 0 < d <= i64::MAX the text of -d is "-" followed by the text of d.
C11_SignSymmetry ==
  (Formatted /\ ~dur.neg /\ dur.mag # <<>>) =>
    fmt([neg |-> TRUE, mag |-> dur.mag]) = <<45>> \o input

\* C11 as the specification states it, for every d > i64::MIN: the text of
\* -d is "-" followed by the text of d.
C11_AsStated ==
  (Formatted /\ dur # [neg |-> TRUE, mag |-> TwoTo63]) =>
    fmt([neg |-> ~dur.neg /\ dur.mag # <<>>, mag |-> dur.mag]) = <<45>> \o input

\* One second has been formatted as "1s", and minus one second is "-1s".
C11_Witness ==
  /\ Formatted
  /\ dur = [neg |-> FALSE, mag |-> RefSecond]
  /\ input = <<49, 115>>
  /\ fmt([neg |-> TRUE, mag |-> RefSecond]) = <<45, 49, 115>>


\* The operation named name of the value type has returned or panicked.
Ran(name) == pc = "returned" /\ op = name

\* m > 0 as the specification writes it.
Positive(m) == ~m.neg /\ m.mag # <<>>

\* C12: for every d, i64::MIN and i64::MAX among them, and every m > 0,
\* truncate(d, m) is d - (d rem m) with the remainder of the sign of d: the
\* result is a multiple of m, its sign is 0 or that of d, it is not farther
\* from zero than d, it is less than m away from d, and nothing overflows.
C12_Truncate ==
  (Ran("truncate") /\ Positive(arg)) =>
    /\ ~out.panic
    /\ out.val.mag = NatSub(dur.mag, NatMod(dur.mag, arg.mag))
    /\ NatMod(out.val.mag, arg.mag) = <<>>
    /\ out.val.mag = <<>> \/ out.val.neg = dur.neg
    /\ out.val.mag = <<>> => ~out.val.neg
    /\ NatLe(out.val.mag, dur.mag)
    /\ NatLt(NatSub(dur.mag, out.val.mag), arg.mag)

\* i64::MIN has been truncated to hours: -2562047h.
C12_Witness ==
  /\ Ran("truncate")
  /\ dur = [neg |-> TRUE, mag |-> TwoTo63]
  /\ arg = [neg |-> FALSE, mag |-> RefHour]
  /\ ~out.panic
  /\ out.val = [neg |-> TRUE,
                mag |-> NatMul(NatOfDigits(<<2, 5, 6, 2, 0, 4, 7>>), RefHour)]


\* |a - b| for natural numbers.
NatDist(a, b) == IF NatGe(a, b) THEN NatSub(a, b) ELSE NatSub(b, a)

\* |x - y| for integers.
IntDist(x, y) ==
  IF x.neg = y.neg THEN NatDist(x.mag, y.mag) ELSE NatAdd(x.mag, y.mag)

\* The magnitude of the multiple of m nearest to x, the farther from zero
\* of the two when x is halfway between them; its sign is that of x.
NearestMag(x, m) ==
  IF NatLt(NatMulSmall(NatMod(x.mag, m.mag), 2), m.mag)
  THEN NatSub(x.mag, NatMod(x.mag, m.mag))
  ELSE NatAdd(NatSub(x.mag, NatMod(x.mag, m.mag)), m.mag)

\* That multiple is above i64::MAX, or below i64::MIN.
AboveMax(x, m) == ~x.neg /\ NatGt(NearestMag(x, m), NatSub(TwoTo63, <<1>>))
BelowMin(x, m) == x.neg /\ NatGt(NearestMag(x, m), TwoTo63)

\* C13: for every d and every m > 0 for which round(d, m) does not
\* saturate, the result is a multiple of m at most m/2 away from d, and when
\* d is halfway between two multiples of m it is the one farther from zero.
C13_RoundBounds ==
  (Ran("round") /\ Positive(arg)
     /\ ~AboveMax(dur, arg) /\ ~BelowMin(dur, arg)) =>
    /\ ~out.panic
    /\ NatMod(out.val.mag, arg.mag) = <<>>
    /\ NatLe(NatMulSmall(IntDist(dur, out.val), 2), arg.mag)
    /\ NatMulSmall(NatMod(dur.mag, arg.mag), 2) = arg.mag =>
         /\ out.val.neg = dur.neg
         /\ out.val.mag = NatAdd(dur.mag, NatMod(dur.mag, arg.mag))

\* -1 has been rounded to a multiple of 2: halfway, so -2.
C13_Witness ==
  /\ Ran("round")
  /\ dur = [neg |-> TRUE, mag |-> <<1>>]
  /\ arg = [neg |-> FALSE, mag |-> <<2>>]
  /\ ~out.panic
  /\ out.val = [neg |-> TRUE, mag |-> <<2>>]

\* C14: for every d and m > 0, round(d, m) is i64::MAX when the nearest
\* multiple of m (halves away from zero) is above i64::MAX, i64::MIN when it
\* is below i64::MIN, and that multiple in every other case; round does not
\* wrap and does not panic, also for m near i64::MAX, where twice the
\* remainder does not fit an i64.
C14_RoundSaturation ==
  (Ran("round") /\ Positive(arg)) =>
    /\ ~out.panic
    /\ out.val = IF AboveMax(dur, arg)
                 THEN [neg |-> FALSE, mag |-> NatSub(TwoTo63, <<1>>)]
                 ELSE IF BelowMin(dur, arg)
                 THEN [neg |-> TRUE, mag |-> TwoTo63]
                 ELSE [neg |-> dur.neg /\ NearestMag(dur, arg) # <<>>,
                       mag |-> NearestMag(dur, arg)]

\* i64::MAX has been rounded to a multiple of 2^62 + 1: the nearest one is
\* 2^63 + 2, so the result is i64::MAX.
C14_Witness ==
  /\ Ran("round")
  /\ dur = [neg |-> FALSE, mag |-> NatSub(TwoTo63, <<1>>)]
  /\ arg = [neg |-> FALSE, mag |-> NatAdd(NatPow2(62), <<1>>)]
  /\ AboveMax(dur, arg)
  /\ ~out.panic
  /\ out.val = [neg |-> FALSE, mag |-> NatSub(TwoTo63, <<1>>)]


\* C15: for every d and every m <= 0 (0, -1 and i64::MIN among them),
\* round(d, m) and truncate(d, m) are d, and no division and no remainder
\* is evaluated.
C15_DegenerateMultiple ==
  ((Ran("round") \/ Ran("truncate")) /\ ~Positive(arg)) =>
    /\ ~out.panic
    /\ out.val = dur
    /\ out.divs = 0

\* i64::MIN has been rounded to a multiple of -1 and has come back.
C15_Witness ==
  /\ Ran("round")
  /\ dur = [neg |-> TRUE, mag |-> TwoTo63]
  /\ arg = [neg |-> TRUE, mag |-> <<1>>]
  /\ out = [panic |-> FALSE, val |-> dur, divs |-> 0]

\* C16: abs(i64::MIN) is i64::MAX and the negation of i64::MIN is
\* i64::MIN; for every other d, abs(d) is |d| and the negation is -d;
\* abs(d) >= 0 for every d; neither operation overflows.
C16_AbsNegate ==
  /\ Ran("abs") =>
       /\ ~out.panic
       /\ ~out.val.neg
       /\ out.val.mag = IF dur = [neg |-> TRUE, mag |-> TwoTo63]
                        THEN NatSub(TwoTo63, <<1>>)
                        ELSE dur.mag
  /\ Ran("neg") =>
       /\ ~out.panic
       /\ out.val = IF dur = [neg |-> TRUE, mag |-> TwoTo63] THEN dur
                    ELSE [neg |-> ~dur.neg /\ dur.mag # <<>>, mag |-> dur.mag]

\* abs(i64::MIN) has given i64::MAX.
C16_Witness ==
  /\ Ran("abs")
  /\ dur = [neg |-> TRUE, mag |-> TwoTo63]
  /\ ~out.panic
  /\ out.val = [neg |-> FALSE, mag |-> NatSub(TwoTo63, <<1>>)]


\* The integer x modulo 2^64, read as a signed 64-bit number.
WrappedI64(x) ==
  IF NatGe(U64OfInt(x), TwoTo63)
  THEN [neg |-> TRUE, mag |-> NatSub(TwoTo64, U64OfInt(x))]
  ELSE [neg |-> FALSE, mag |-> U64OfInt(x)]

\* C17: for every pair of 64-bit operands, add, sub and mul return the exact
\* result modulo 2^64 read as a signed number, and do not panic, also when
\* the exact result is outside [i64::MIN, i64::MAX].
C17_WrappingArithmetic ==
  /\ Ran("add") => (~out.panic /\ out.val = WrappedI64(IntAdd(dur, arg)))
  /\ Ran("sub") => (~out.panic /\ out.val = WrappedI64(IntSub(dur, arg)))
  /\ Ran("mul") => (~out.panic /\ out.val = WrappedI64(IntMul(dur, arg)))

\* C18: for every pair of durations a and b, a / b returns without a panic,
\* b = 0 and a = i64::MIN with b = -1 among them, and is the ratio of the
\* nanosecond counts truncated toward zero.
C18_Division ==
  Ran("div") =>
    /\ ~out.panic
    /\ (arg.mag # <<>> /\ InI64([neg |-> FALSE, mag |-> NatDiv(dur.mag, arg.mag)]))
         => out.val = [neg |-> dur.neg # arg.neg
                                /\ NatDiv(dur.mag, arg.mag) # <<>>,
                       mag |-> NatDiv(dur.mag, arg.mag)]


\* The fractional digits leading_fraction accumulates: the longest run at
\* the start of ds whose value is at most i64::MAX.
Accumulated(ds) ==
  SubSeq(ds, 1, Cardinality({k \in 1..Len(ds) :
                   NatLe(ValueOf(SubSeq(ds, 1, k)), NatSub(TwoTo63, <<1>>))}))

\* unit / 10^k in f64 for every unit of the table and k = 0..22, computed
\* once.
RefQuotientTable ==
  SubSeq([i \in 1..6 |->
            SubSeq([k \in 1..23 |->
                      F64Div(F64OfNat(UnitValues[i]),
                             F64OfNat(NatPow10(k - 1)))], 1, 23)],
         1, 6)

RefQuotient(unit, k) ==
  RefQuotientTable[CHOOSE i \in 1..6 : UnitValues[i] = unit][k + 1]

\* floor(f * unit / scale) for the accumulated digits acc, in integers.
ExactOf(acc, unit) == NatDiv(NatMul(ValueOf(acc), unit), NatPow10(Len(acc)))

\* floor(f * unit / scale) for the number n, in integers.
ExactFraction(n, unit) == ExactOf(Accumulated(n.frac), unit)

\* f * (unit / scale) for the accumulated digits acc in f64 arithmetic, each
\* operation rounded to the nearest f64, and the product cut to an integer.
FloatOf(acc, unit) ==
  F64ToU64(F64Mul(F64OfNat(ValueOf(acc)), RefQuotient(unit, Len(acc))))

\* f * (unit / scale) for the number n in f64 arithmetic.
FloatFraction(n, unit) == FloatOf(Accumulated(n.frac), unit)

\* The loop of from_str has taken the term at ts and gone on.
Accepted == ts # <<>> /\ s # ts

\* The sum after a term: the sum before it plus the integer part times the
\* unit plus the fraction ff, modulo 2^64.
TermSum(sum, n, u, ff) == NatMod(NatAdd(ScaledInt(sum, n, u), ff), TwoTo64)

\* The term n with unit text u has taken the sum from sum to after, its
\* fraction computed in f64 and within one nanosecond of the exact one.
FloatTerm(sum, after, n, u, ff, ef) ==
  /\ after = TermSum(sum, n, u, ff)
  /\ NatLe(NatDist(ff, ef), <<1>>)

FloatTermWith(sum, after, n, u, acc) ==
  FloatTerm(sum, after, n, u, FloatOf(acc, RefUnits[u]),
            ExactOf(acc, RefUnits[u]))

FloatTermOf(sum, after, n, u) ==
  FloatTermWith(sum, after, n, u, Accumulated(n.frac))

FloatTermAt(sum, after, n) == FloatTermOf(sum, after, n, UnitRun(n.rest))

\* The term n with unit text u has taken the sum from sum to after, its
\* fraction the exact floor.
ExactTermOf(sum, after, n, u) ==
  after = NatAdd(ScaledInt(sum, n, u), ExactFraction(n, RefUnits[u]))

ExactTermAt(sum, after, n) == ExactTermOf(sum, after, n, UnitRun(n.rest))

\* C19, with the arithmetic the code uses: an accepted term with integer
\* part v, accumulated fraction f, scale = 10^(number of accumulated digits)
\* and unit value unit adds v * unit + trunc(f * (unit / scale)) to the sum
\* of the u64 accumulator, the product and the quotient computed in f64;
\* the result is within one nanosecond of v * unit + floor(f * unit / scale)
\* and "1.004s" is 1004000000 ns, "9223372036854775.807us" is i64::MAX.
C19_FractionalValue ==
  /\ Accepted => FloatTermAt(d0, d, NumberOf(ts))
  /\ (pc = "done" /\ input = <<49, 46, 48, 48, 52, 115>>)
       => res = Ok([neg |-> FALSE,
                    mag |-> NatOfDigits(<<1, 0, 0, 4, 0, 0, 0, 0, 0, 0>>)])
  /\ (pc = "done" /\ input = DigitBytes(<<9, 2, 2, 3, 3, 7, 2, 0, 3, 6, 8, 5, 4, 7, 7, 5>>)
                              \o <<46, 56, 48, 55, 117, 115>>)
       => res = Ok([neg |-> FALSE, mag |-> NatSub(TwoTo63, <<1>>)])

\* C19 as the specification states it: an accepted term adds exactly
\* v * unit + floor(f * unit / scale) nanoseconds, in integer arithmetic.
C19_AsStated ==
  Accepted => ExactTermAt(d0, d, NumberOf(ts))

\* "0.3333333333333333333h" has been taken as 1200000000000 ns, one more
\* than floor(3333333333333333333 * 3600000000000 / 10^19).
C19_Witness ==
  /\ Accepted
  /\ d0 = <<>>
  /\ ts = <<48, 46>> \o DigitBytes(<<3, 3, 3, 3, 3, 3, 3, 3, 3, 3, 3, 3, 3, 3, 3, 3, 3, 3, 3>>)
          \o <<104>>
  /\ d = NatOfDigits(<<1, 2, 0, 0, 0, 0, 0, 0, 0, 0, 0, 0, 0>>)
  /\ ExactFraction(NumberOf(ts), RefHour)
       = NatOfDigits(<<1, 1, 9, 9, 9, 9, 9, 9, 9, 9, 9, 9, 9>>)


\* The run of digits at the start of a text.
DigitsOf(str) == SubSeq(str, 1, DigitRun(str, 1))

\* C20: for a run of fractional digits of any length, leading_fraction
\* takes the whole run off the text, accumulates the digits while the
\* accumulator stays at most i64::MAX, leaves the accumulator and the scale
\* as they are for every later digit, returns scale = 10^(number of
\* accumulated digits), and reports no error.
C20_FractionTail ==
  (origin = "fraction" /\ pc = "returned") =>
    /\ ~frac.panic
    /\ frac.rest = SubSeq(input, DigitRun(input, 1) + 1, Len(input))
    /\ frac.x = ValueOf(Accumulated(DigitsOf(input)))
    /\ frac.scale = F64OfNat(NatPow10(Len(Accumulated(DigitsOf(input)))))


\* "0.3333333333333333333h" and "0.100000000000000000000h", and the digits
\* of their fractions.
ThirdDigits == DigitBytes(<<3, 3, 3, 3, 3, 3, 3, 3, 3, 3, 3, 3, 3, 3, 3, 3, 3, 3, 3>>)
TenthDigits ==
  DigitBytes(<<1, 0, 0, 0, 0, 0, 0, 0, 0, 0, 0, 0, 0, 0, 0, 0, 0, 0, 0, 0, 0>>)
ThirdHour == <<48, 46>> \o ThirdDigits \o <<104>>
TenthHour == <<48, 46>> \o TenthDigits \o <<104>>

TwentyMinutes == NatMulSmall(MINUTE, 20)
SixMinutes == NatMulSmall(MINUTE, 6)

\* f * (HOUR / scale) in f64 cut to an integer, for what leading_fraction
\* returns.
AppliedToHour(lf) ==
  F64ToU64(F64Mul(F64OfNat(lf.x), F64Div(F64OfNat(HOUR), lf.scale)))

\* C21: from_str("0.3333333333333333333h") is 1200000000000 ns (20 minutes)
\* and from_str("0.100000000000000000000h") is 6 minutes, in every build;
\* leading_fraction returns f = 3333333333333333333 with scale 10^19 for the
\* first and, the last two digits left out, f = 10^18 with scale 10^19 for
\* the second, and these applied to the hour are the two results.
C21_HourFractions ==
  /\ (pc = "done" /\ input = ThirdHour)
       => res = Ok([neg |-> FALSE, mag |-> TwentyMinutes])
  /\ (pc = "done" /\ input = TenthHour)
       => res = Ok([neg |-> FALSE, mag |-> SixMinutes])
  /\ (origin = "fraction" /\ pc = "returned" /\ input = ThirdDigits)
       => /\ ~frac.panic
          /\ frac.x = ValueOf(ThirdDigits)
          /\ frac.scale = F64OfNat(NatPow10(19))
          /\ AppliedToHour(frac) = TwentyMinutes
  /\ (origin = "fraction" /\ pc = "returned" /\ input = TenthDigits)
       => /\ ~frac.panic
          /\ frac.x = NatPow10(18)
          /\ frac.scale = F64OfNat(NatPow10(19))
          /\ AppliedToHour(frac) = SixMinutes

\* "0.100000000000000000000h" has been parsed to 6 minutes.
C21_Witness ==
  /\ pc = "done"
  /\ input = TenthHour
  /\ res = Ok([neg |-> FALSE, mag |-> SixMinutes])


\* The hexadecimal digits of c, first digit first, from the digit table.
HexChars == <<48, 49, 50, 51, 52, 53, 54, 55, 56, 57, 97, 98, 99, 100, 101, 102>>

HexLen(c) == CHOOSE n \in 1..6 : c < 16 ^ n /\ (n = 1 \/ c >= 16 ^ (n - 1))

RefHex(c) == [k \in 1..HexLen(c) |-> HexChars[((c \div (16 ^ (HexLen(c) - k))) % 16) + 1]]

\* A printable ASCII char: ' ' to '~'.
Printable(c) == c >= 32 /\ c <= 126

\* The quoted form of one char as stated: a printable ASCII char as it is,
\* '"' and '\' after a backslash; any other char as \u{...}.
RefQuotedChar(c) ==
  IF Printable(c)
  THEN IF c \in {34, 92} THEN <<92, c>> ELSE <<c>>
  ELSE <<92, 117, 123>> \o RefHex(c) \o <<125>>

RECURSIVE Concat(_)
Concat(parts) ==
  IF parts = <<>> THEN <<>> ELSE Head(parts) \o Concat(Tail(parts))

RefQuoted(u) ==
  <<34>> \o Concat([k \in 1..Len(u) |-> RefQuotedChar(u[k])]) \o <<34>>

\* from_str has returned an error and the caller has its text.
Shown == pc = "done" /\ msg # <<>>

\* C22: the text of UnknownUnit is "unknown unit " and the unit between
\* double quotes, every printable ASCII char of the unit as it is, '"' and
\* '\' after a backslash, and every other char, a control char, U+007F or
\* a char outside ASCII, as a \u{...} escape of its code point.
C22_Quoting ==
  (Shown /\ res.kind = "UnknownUnit") =>
    msg = UnknownUnitText \o RefQuoted(chars(res.unit))


\* What the last pass of the loop took off the text: ts without its tail s.
Taken == SubSeq(ts, 1, Len(ts) - Len(s))

\* s is what is left of ts after its first n bytes.
LeftAfter(n) == n <= Len(ts) /\ s = SubSeq(ts, n + 1, Len(ts))

\* C23: a pass of from_str's loop either returns an error or goes on with
\* a shorter text, having taken at least one digit and at least one byte of
\* a unit after it; the passes are at most len(input); and Ok after a pass
\* is returned with nothing left of the text.
C23_Progress ==
  /\ (pc = "loop" /\ passes >= 1) =>
       /\ Len(s) + 2 <= Len(ts)
       /\ LeftAfter(Len(ts) - Len(s))
       /\ \E k \in 1..Len(Taken) : DigitByte(Taken[k])
       /\ ~DigitByte(Taken[Len(Taken)]) /\ Taken[Len(Taken)] # ByteDot
  /\ (pc = "done" /\ passes >= 1) =>
       \/ res.kind \in {"Invalid", "MissUnit", "UnknownUnit"}
       \/ res.kind = "Ok" /\ s = <<>>
  /\ passes <= Len(input)


\* The write index of fmt when buf[w..] is the text t.  fmt only ever puts
\* bytes in front of what it has written, so the index is lowest, and
\* buf[w..] longest, when fmt is done.
WriteIndex(t) == BufLen - Len(t)

\* The byte at k of t is '-', a digit, '.', one of h, m, s, n, or a byte of
\* the two-byte micro sign 194 181.
OutputByte(t, k) ==
  \/ DigitByte(t[k])
  \/ t[k] \in {ByteMinus, ByteDot, 104, 109, 115, 110}
  \/ t[k] = 194 /\ k < Len(t) /\ t[k + 1] = 181
  \/ t[k] = 181 /\ k > 1 /\ t[k - 1] = 194

\* A byte that continues a char in UTF-8.
Continuation(b) == b >= 128 /\ b <= 191

\* C24: for every duration other than i64::MIN the text fmt has written
\* right to left into its 32-byte buffer leaves the write index at 0 or
\* above, is at most 25 bytes, starts at a char boundary, has at most one
\* '.', and has no byte other than '-', the digits, '.', h, m, s, n and the
\* two bytes of the micro sign.
C24_BufferSafety ==
  (Formatted /\ dur # I64_MIN) =>
    /\ WriteIndex(input) >= 0
    /\ Len(input) <= 25
    /\ input # <<>>
    /\ ~Continuation(input[1])
    /\ Cardinality({k \in 1..Len(input) : input[k] = ByteDot}) <= 1
    /\ \A k \in 1..Len(input) : OutputByte(input, k)

\* -i64::MAX has been written in 25 bytes, the write index at 7.
C24_Witness ==
  /\ Formatted
  /\ dur = [neg |-> TRUE, mag |-> NatSub(TwoTo63, <<1>>)]
  /\ Len(input) = 25
  /\ WriteIndex(input) = 7


\* round or truncate has run on its own result.
RanAgain(name) == pc = "again" /\ op = name

\* C25: for every d and every m, positive, zero or negative,
\* round(round(d, m), m) is round(d, m), also when round(d, m) is the
\* saturated i64::MAX or i64::MIN, and truncate(truncate(d, m), m) is
\* truncate(d, m); the second application does not panic.
C25_Idempotent ==
  (RanAgain("round") \/ RanAgain("truncate")) =>
    /\ ~again.panic
    /\ again.val = out.val

\* 2^63 - 3 has been rounded to a multiple of 2^62 + 1, which gave the
\* saturated i64::MAX, and i64::MAX has been rounded and has come back.
C25_Witness ==
  /\ RanAgain("round")
  /\ dur = [neg |-> FALSE, mag |-> NatSub(TwoTo63, <<3>>)]
  /\ arg = [neg |-> FALSE, mag |-> NatAdd(NatPow2(62), <<1>>)]
  /\ out.val = [neg |-> FALSE, mag |-> NatSub(TwoTo63, <<1>>)]
  /\ again.val = out.val
  /\ ~again.panic

=============================================================================
